---- MODULE Spec2Model ----
(***************************************************************************)
(* Recording state machine and session broadcast manager of the Halo       *)
(* backend: the visit record written by the start/pause/resume/finish      *)
(* handlers (app/routers/audio.py), the control-connection endpoint that    *)
(* routes the commands and pauses on disconnect (app/routers/user.py), the  *)
(* note-generation task started by finish (app/routers/visit.py) and the    *)
(* connection registry with its broadcast (app/services/connection.py).     *)
(*                                                                         *)
(* Time is the wall clock datetime.utcnow(), counted in ticks of            *)
(* 1/TicksPerSecond second. It is not monotonic: the operating system may   *)
(* step it back. A stored timestamp string is modelled as the one-element   *)
(* sequence <<t>> of the clock reading it was produced from (str() and      *)
(* datetime.fromisoformat() are exact inverses on naive datetimes), the     *)
(* empty string '' as <<>>. recording_duration is stored as a decimal       *)
(* string, modelled as the sequence of its characters. A text is the        *)
(* sequence of its words, a transcript the sequence of its lines.           *)
(***************************************************************************)
EXTENDS Integers, Sequences, FiniteSets, TLC

VARIABLES
    now,                \* datetime.utcnow(), in ticks
    visits,             \* the visits collection: visit_id -> document
    pc,                 \* position of each control connection's websocket_endpoint
    sock,               \* transport of each control connection
    active_recordings,  \* websocket_endpoint's local list, per connection
    active_connections, \* ConnectionManager.active_connections: user -> session ids
    last_activity,      \* ConnectionManager.last_activity: user -> session ids
    note_tasks,         \* handle_generate_note tasks created by finish_recording
    msg,                \* the message handled by the last step
    events,             \* the broadcasts made by the last step, in order
    ncmds,              \* number of recording commands handled so far
    recSince,           \* history: clock reading when the visit last entered RECORDING
    recorded,           \* history: whole seconds spent in RECORDING, closed intervals
    log,                \* history: the commands handled, with their clock readings
    tr,                 \* the Transcriber of each audio connection, with its tasks
    apc,                \* position of each audio connection's transcribe endpoint
    frames,             \* audio frames: received by the endpoint, accepted by the remote
    nerrs,              \* number of remote error callbacks so far
    store_q,            \* _store_transcript coroutines scheduled on the loop, in order
    obs,                \* what the last call of connect, send_audio or disconnect did
    bc,                 \* the manager.broadcast call suspended at an await, if any
    hc,                 \* ConnectionManager.health_check_task and its position
    reg,                \* history: connections registered, removed, failed so far
    db,                 \* visits created and deleted through create_visit / delete_visit
    dropped             \* history: utterances whose store failed

streamVars == <<tr, apc, frames, nerrs, store_q, obs>>

mgrVars == <<bc, hc, reg>>

storeVars == <<db, dropped>>

vars == <<now, visits, pc, sock, active_recordings, active_connections,
          last_activity, note_tasks, msg, events, ncmds, recSince, recorded, log,
          streamVars, mgrVars, storeVars>>

(***************************************************************************)
(* Bounds of the model.                                                    *)
(***************************************************************************)
TicksPerSecond == 2
MaxTime == 3
MaxCmds == 3
MaxLog == 4
MaxFanout == 2

Visits == {"v1"}
Users == {"u1", "u2"}
Conns == {"c1", "c2", "c3"}
Commands == {"start_recording", "pause_recording", "resume_recording", "finish_recording"}

\* db.is_session_valid(session_id): the user a control connection's session belongs to.
UserOf(c) == IF c = "c3" THEN "u2" ELSE "u1"

(***************************************************************************)
(* Python conversions.                                                     *)
(***************************************************************************)
DigitChar(d) == CASE d = 0 -> "0" [] d = 1 -> "1" [] d = 2 -> "2" [] d = 3 -> "3"
                  [] d = 4 -> "4" [] d = 5 -> "5" [] d = 6 -> "6" [] d = 7 -> "7"
                  [] d = 8 -> "8" [] d = 9 -> "9"

DigitVal(ch) == CASE ch = "0" -> 0 [] ch = "1" -> 1 [] ch = "2" -> 2 [] ch = "3" -> 3
                  [] ch = "4" -> 4 [] ch = "5" -> 5 [] ch = "6" -> 6 [] ch = "7" -> 7
                  [] ch = "8" -> 8 [] ch = "9" -> 9

RECURSIVE NatStr(_)
NatStr(n) == IF n < 10 THEN <<DigitChar(n)>>
             ELSE NatStr(n \div 10) \o <<DigitChar(n % 10)>>

\* str(n) of an int: its decimal digits, "-" first when negative.
PyStr(n) == IF n < 0 THEN <<"-">> \o NatStr(-n) ELSE NatStr(n)

RECURSIVE NatVal(_)
NatVal(s) == IF s = <<>> THEN 0
             ELSE 10 * NatVal(SubSeq(s, 1, Len(s) - 1)) + DigitVal(s[Len(s)])

\* int(s) of a decimal string.
PyInt(s) == IF s[1] = "-" THEN -NatVal(Tail(s)) ELSE NatVal(s)

\* int((a - b).total_seconds()): whole seconds between two clock readings,
\* truncated toward zero.
TimeDiff(a, b) == IF a >= b THEN (a - b) \div TicksPerSecond
                  ELSE -((b - a) \div TicksPerSecond)

(***************************************************************************)
(* Python dict and list operations.                                        *)
(***************************************************************************)
DictSet(d, k, v) == [x \in DOMAIN d \cup {k} |-> IF x = k THEN v ELSE d[x]]
DictDel(d, k) == [x \in DOMAIN d \ {k} |-> d[x]]

RECURSIVE ListRemove(_, _)
\* list.remove(x): drops the first occurrence; a missing x raises ValueError,
\* which the caller's bare except swallows, leaving the list as it was.
ListRemove(s, x) == IF s = <<>> THEN <<>>
                    ELSE IF Head(s) = x THEN Tail(s)
                    ELSE <<Head(s)>> \o ListRemove(Tail(s), x)

(***************************************************************************)
(* The visit document and the four recording handlers' writes to it.       *)
(***************************************************************************)
\* database.create_visit: the document a new visit starts as.
NewVisit == [status |-> "NOT_STARTED", recording_started_at |-> <<>>,
             recording_duration |-> <<>>, recording_finished_at |-> <<>>,
             transcript |-> <<>>]

\* handle_start_recording: db.update_visit(status="RECORDING", recording_started_at=now).
StartVisit(vis, t) == [vis EXCEPT !.status = "RECORDING", !.recording_started_at = <<t>>]

\* The duration both pause and finish (and the disconnect handler) compute:
\* the stored duration, plus the seconds since recording_started_at when that is set.
NewDuration(vis, t) ==
    LET old_duration == IF vis.recording_duration # <<>>
                        THEN PyInt(vis.recording_duration) ELSE 0
    IN  IF vis.recording_started_at # <<>>
        THEN old_duration + TimeDiff(t, vis.recording_started_at[1])
        ELSE old_duration

\* handle_pause_recording: db.update_visit(status="PAUSED", recording_duration=str(new_duration)).
PauseVisit(vis, t) ==
    [vis EXCEPT !.status = "PAUSED", !.recording_duration = PyStr(NewDuration(vis, t))]

\* Mutant of ResumeVisit: the status is set but recording_started_at keeps its old value.
ResumeVisitKeepsAnchor(vis, t) == [vis EXCEPT !.status = "RECORDING"]

\* handle_resume_recording: db.update_visit(status="RECORDING", recording_started_at=now).
ResumeVisit(vis, t) == [vis EXCEPT !.status = "RECORDING", !.recording_started_at = <<t>>]

\* handle_finish_recording: db.update_visit(status="FINISHED", recording_finished_at=now,
\* recording_duration=str(new_duration)).
FinishVisit(vis, t) ==
    [vis EXCEPT !.status = "FINISHED", !.recording_finished_at = <<t>>,
                !.recording_duration = PyStr(NewDuration(vis, t))]

\* process_message's dispatch on message.type, as the write to the visit.
HandleVisit(type, vis, t) ==
    CASE type = "start_recording"  -> StartVisit(vis, t)
      [] type = "pause_recording"  -> PauseVisit(vis, t)
      [] type = "resume_recording" -> ResumeVisit(vis, t)
      [] type = "finish_recording" -> FinishVisit(vis, t)

(***************************************************************************)
(* ConnectionManager. A manager state m is the record                      *)
(* [ac |-> active_connections, la |-> last_activity, sock |-> transports]. *)
(* The values of last_activity (timestamps) are never read by the code;    *)
(* only its keys are kept.                                                 *)
(***************************************************************************)
\* websocket.send_json succeeds on an open transport and raises on any other.
SendOk(s) == s = "open"

\* Mutant of WasRequested: every delivery is flagged as requested.
WasRequestedAlways(sid, req) == TRUE

\* msg_copy["was_requested"] = (websocket_session_id == requesting_websocket_session_id)
WasRequested(sid, req) == sid = req

\* ConnectionManager.connect
MgrConnect(m, sid, u) ==
    LET ac1 == IF u \in DOMAIN m.ac THEN m.ac ELSE DictSet(m.ac, u, {})
        la1 == IF u \in DOMAIN m.la THEN m.la ELSE DictSet(m.la, u, {})
    IN  [ac   |-> DictSet(ac1, u, ac1[u] \cup {sid}),
         la   |-> DictSet(la1, u, la1[u] \cup {sid}),
         sock |-> [m.sock EXCEPT ![sid] = "open"]]

\* Mutant of RemoveConnection: the websocket is closed but the entries stay.
RemoveConnectionCloseOnly(m, sid, u) ==
    IF u \in DOMAIN m.ac /\ sid \in m.ac[u]
    THEN [m EXCEPT !.sock[sid] = "closed"]
    ELSE m

\* ConnectionManager._remove_connection
RemoveConnection(m, sid, u) ==
    IF u \in DOMAIN m.ac /\ sid \in m.ac[u]
    THEN LET ac1 == DictSet(m.ac, u, m.ac[u] \ {sid})
             la1 == IF u \in DOMAIN m.la /\ sid \in m.la[u]
                    THEN DictSet(m.la, u, m.la[u] \ {sid}) ELSE m.la
             empty == ac1[u] = {}
         IN  [ac   |-> IF empty THEN DictDel(ac1, u) ELSE ac1,
              la   |-> IF empty /\ u \in DOMAIN la1 THEN DictDel(la1, u) ELSE la1,
              sock |-> [m.sock EXCEPT ![sid] = "closed"]]
    ELSE m

RECURSIVE RemoveAll(_, _, _)
\* broadcast's second loop: _remove_connection for every failed session.
RemoveAll(m, failed, u) ==
    IF failed = {} THEN m
    ELSE LET sid == CHOOSE x \in failed : TRUE
         IN  RemoveAll(RemoveConnection(m, sid, u), failed \ {sid}, u)

\* Mutant of ConnectionCount: every attempted delivery is counted.
ConnectionCountAttempted(attempts) == Cardinality(attempts)

\* broadcast's connection_count: incremented after each send_json that returned.
ConnectionCount(attempts) == Cardinality({x \in attempts : x.ok})

\* ConnectionManager.broadcast, run to completion: the manager state after it and
\* the record of what it did (every send_json attempted, and the returned count).
Broadcast(m, req, u, type, visit_id) ==
    IF u \notin DOMAIN m.ac
    THEN [m |-> m,
          ev |-> [type |-> type, visit_id |-> visit_id, req |-> req, user |-> u,
                  attempts |-> {}, count |-> 0]]
    ELSE LET connections_copy == m.ac[u]
             attempts == {[conn |-> sid, was_requested |-> WasRequested(sid, req),
                           ok |-> SendOk(m.sock[sid])] : sid \in connections_copy}
             failed_sessions == {a.conn : a \in {x \in attempts : ~x.ok}}
         IN  [m |-> RemoveAll(m, failed_sessions, u),
              ev |-> [type |-> type, visit_id |-> visit_id, req |-> req, user |-> u,
                      attempts |-> attempts,
                      count |-> ConnectionCount(attempts)]]

(***************************************************************************)
(* The same manager, one step at a time. A coroutine of the manager runs   *)
(* without interruption up to its next await: broadcast is suspended at    *)
(* each send_json and at the close of each failed connection it removes,   *)
(* _check_connections at the close of each connection it removes. bc is    *)
(* the broadcast call that is suspended (one at a time): copy holds the    *)
(* entries of connections_copy not visited yet, cur the connection whose   *)
(* send_json is awaited, owner the caller ("task" for a process_message    *)
(* task, a connection for the disconnect handler of its endpoint, whose    *)
(* remaining active_recordings are todo). The order in which a dict is     *)
(* iterated is the order of insertion; the model allows every order.       *)
(* A transport is "disconnected" once receive has delivered the client's   *)
(* disconnect (client_state DISCONNECTED) and "closed" once the server has *)
(* called close on it (application_state DISCONNECTED).                    *)
(***************************************************************************)
NoBroadcast ==
    [phase |-> "none", req |-> "none", user |-> "none", owner |-> "none",
     type |-> "none", visit_id |-> "none", copy |-> {}, cur |-> "none",
     attempts |-> {}, sent |-> {}, failed |-> {}, errors |-> 0, todo |-> <<>>,
     begun_open |-> FALSE]

\* Mutant of StillRegistered: every entry of the copy is attempted.
StillRegisteredUnchecked(m, sid, u) == TRUE

\* user_id in self.active_connections and
\* websocket_session_id in self.active_connections[user_id]
StillRegistered(m, sid, u) == u \in DOMAIN m.ac /\ sid \in m.ac[u]

\* Mutant of TouchActivity: the entry is written without looking for it.
TouchActivityUnguarded(m, sid, u) ==
    IF u \in DOMAIN m.la
    THEN [m |-> [m EXCEPT !.la = DictSet(m.la, u, m.la[u] \cup {sid})], exc |-> FALSE]
    ELSE [m |-> m, exc |-> TRUE]

\* broadcast after a send_json that returned: the connection's last_activity is
\* refreshed when the entry is still there. exc: the statement raised.
TouchActivity(m, sid, u) ==
    IF u \in DOMAIN m.la /\ sid \in m.la[u]
    THEN [m |-> [m EXCEPT !.la = DictSet(m.la, u, m.la[u] \cup {sid})], exc |-> FALSE]
    ELSE [m |-> m, exc |-> FALSE]

\* websocket.client_state
ClientState(s) == IF s = "disconnected" THEN "DISCONNECTED" ELSE "CONNECTED"

\* broadcast's first loop from its current entry on: the calls of send_json it
\* may be suspended at next, one for each entry of the copy that is still
\* registered. registered records whether the connection is in the registry at
\* that moment, begun_open whether the transport is open when the send begins.
Sends(m, b) ==
    {[b EXCEPT !.phase = "sending", !.cur = sid, !.copy = b.copy \ {sid},
               !.begun_open = SendOk(m.sock[sid]),
               !.attempts = @ \cup {[conn |-> sid,
                                      was_requested |-> WasRequested(sid, b.req),
                                      registered |-> (b.user \in DOMAIN m.ac
                                                      /\ sid \in m.ac[b.user])]}] :
        sid \in {x \in b.copy : StillRegistered(m, x, b.user)}}

\* broadcast after a send_json has returned or raised: the next send, or the
\* loop over failed_sessions, or the return.
LoopNext(m, b) ==
    IF Sends(m, b) # {} THEN Sends(m, b)
    ELSE IF b.failed # {} THEN {[b EXCEPT !.phase = "removing", !.cur = "none"]}
    ELSE {[b EXCEPT !.phase = "returned", !.cur = "none"]}

\* The record of a broadcast that has returned.
EventOf(b) ==
    [type |-> b.type, visit_id |-> b.visit_id, req |-> b.req, user |-> b.user,
     attempts |-> {[conn |-> a.conn, was_requested |-> a.was_requested,
                    ok |-> a.conn \in b.sent] : a \in b.attempts},
     count |-> Cardinality(b.sent)]

RECURSIVE HandlerRun(_, _, _, _, _)
\* The WebSocketDisconnect handler of connection c from the entry list of
\* active_recordings on, up to its next await: the pause of the visit and the
\* call of broadcast, which returns 0 at once when the user has no connection
\* left; after the last entry, manager.disconnect. The result is the set of
\* states it may be suspended in (done: the endpoint has returned).
HandlerRun(list, vs, m, c, t) ==
    IF list = <<>>
    THEN {[visits |-> vs, m |-> RemoveConnection(m, c, UserOf(c)),
           bc |-> NoBroadcast, done |-> TRUE]}
    ELSE LET v   == Head(list)
             vs1 == [vs EXCEPT ![v] = PauseVisit(vs[v], t)]
             b0  == [NoBroadcast EXCEPT !.req = c, !.user = UserOf(c), !.owner = c,
                                        !.type = "pause_recording", !.visit_id = v,
                                        !.copy = IF UserOf(c) \in DOMAIN m.ac
                                                 THEN m.ac[UserOf(c)] ELSE {},
                                        !.todo = Tail(list)]
         IN  IF Sends(m, b0) = {}
             THEN HandlerRun(Tail(list), vs1, m, c, t)
             ELSE {[visits |-> vs1, m |-> m, bc |-> s, done |-> FALSE] : s \in Sends(m, b0)}

\* ConnectionManager.health_check_task: not created, asleep between two rounds,
\* or suspended in _check_connections at the close of a connection it removes
\* (users: the keys of connections_copy not visited yet, user: the key whose
\* copy is being scanned, conns: the entries of that copy not visited yet).
NoHealthCheck == [task |-> "none", users |-> {}, user |-> "none", conns |-> {}]

RECURSIVE CheckConnections(_, _)
\* _check_connections from its current entry on, up to its next await: the set
\* of states it may be suspended in. removed is the connection whose removal it
\* awaits, "none" when the round is over.
CheckConnections(m, h) ==
    LET stale == {sid \in h.conns : ClientState(m.sock[sid]) = "DISCONNECTED"}
        next  == {u \in h.users : u \in DOMAIN m.ac}
    IN  IF stale # {}
        THEN {[m |-> RemoveConnection(m, sid, h.user),
               hc |-> [h EXCEPT !.task = "scanning", !.conns = h.conns \ {sid}],
               removed |-> IF StillRegistered(m, sid, h.user) THEN sid ELSE "none"] :
                    sid \in stale}
        ELSE IF next = {}
        THEN {[m |-> m, hc |-> [NoHealthCheck EXCEPT !.task = "sleeping"],
               removed |-> "none"]}
        ELSE UNION {CheckConnections(m, [h EXCEPT !.users = h.users \ {u}, !.user = u,
                                                  !.conns = m.ac[u]]) : u \in next}

\* History of the registry: the connections connect has registered, those
\* manager.disconnect or the health check has removed and those a send has
\* failed for.
NoRegistryHistory == [connected |-> {}, removed |-> {}, failed |-> {}]

FailedIn(evs) ==
    UNION {{a.conn : a \in {x \in evs[i].attempts : ~x.ok}} : i \in 1..Len(evs)}

(***************************************************************************)
(* Transcriber (app/routers/audio.py): the speech stream of one audio      *)
(* connection /ws/{visit_id}. The record of a Transcriber holds the fields  *)
(* of the object and the coroutines working on it: owner names the caller   *)
(* suspended in _attempt_reconnect's sleep ("none" when no attempt is in    *)
(* progress), sleep_left the seconds that sleep still lasts and slept the   *)
(* seconds the last sleep has lasted. ready is the part of the event loop's *)
(* queue whose order matters, first in first out: "task" for an             *)
(* _attempt_reconnect coroutine that _on_error has scheduled and that has   *)
(* not started, "cancel" for the keep-alive task's wake-up after            *)
(* disconnect has cancelled it. connection is TRUE when self.connection is  *)
(* an object, FALSE when it is None. Every call into the remote service     *)
(* (start, send) succeeds or raises, as the remote decides. heard (the      *)
(* fragments received) and nutt (the number of utterances finalized) are    *)
(* history.                                                                 *)
(***************************************************************************)
Audio == {"a1", "a2"}

\* The visit_id of the path an audio connection was opened on.
VisitOf(a) == "v1"

max_reconnect_attempts == 5
InitialReconnectDelay == 1
MaxReconnectDelay == 30
MaxFrames == 3
MaxErrors == 2

Min(x, y) == IF x < y THEN x ELSE y

\* Transcriber.__init__
NewTranscriber ==
    [connection |-> FALSE, is_connected |-> FALSE, reconnect_attempts |-> 0,
     reconnect_delay |-> InitialReconnectDelay, reconnecting |-> FALSE,
     keep_alive_task |-> "none", is_finals |-> <<>>, heard |-> <<>>, nutt |-> 0,
     owner |-> "none", sleep_left |-> 0, slept |-> 0, ready |-> <<>>]

\* Transcriber._cleanup_connection
CleanupConnection(t) == [t EXCEPT !.is_connected = FALSE, !.connection = FALSE]

\* The outcomes of connect's try block: everything succeeds, the client cannot be
\* built (self.connection stays None), or the connection object is built and
\* start raises.
ConnectOutcomes == {"ok", "no_client", "no_start"}

\* The try block of Transcriber.connect: the state it leaves, and whether it raised.
ConnectTry(t, how) ==
    LET c == CleanupConnection(t)
    IN  CASE how = "ok" ->
               [tr |-> [c EXCEPT !.connection = TRUE, !.is_connected = TRUE,
                                 !.reconnect_attempts = 0,
                                 !.reconnect_delay = InitialReconnectDelay,
                                 !.keep_alive_task =
                                     IF @ = "none" THEN "running" ELSE @],
                exc |-> FALSE]
          [] how = "no_client" -> [tr |-> c, exc |-> TRUE]
          [] how = "no_start" -> [tr |-> [c EXCEPT !.connection = TRUE], exc |-> TRUE]

\* Mutant of AttemptReconnect: the reconnecting flag is not looked at.
AttemptReconnectUnguarded(t, caller) ==
    IF t.reconnect_attempts >= max_reconnect_attempts
    THEN t
    ELSE [t EXCEPT !.reconnecting = TRUE,
                   !.reconnect_attempts = @ + 1,
                   !.owner = caller,
                   !.sleep_left = t.reconnect_delay,
                   !.slept = 0]

\* Transcriber._attempt_reconnect up to its sleep: nothing when an attempt is in
\* progress or the attempts are used up; otherwise the attempt is counted and
\* the caller sleeps reconnect_delay seconds.
AttemptReconnect(t, caller) ==
    IF t.reconnecting \/ t.reconnect_attempts >= max_reconnect_attempts
    THEN t
    ELSE [t EXCEPT !.reconnecting = TRUE,
                   !.reconnect_attempts = @ + 1,
                   !.owner = caller,
                   !.sleep_left = t.reconnect_delay,
                   !.slept = 0]

\* Transcriber.connect up to its first suspension: the state, and whether an
\* exception leaves it.
TranscriberConnect(t, how, caller) ==
    LET r == ConnectTry(t, how)
    IN  IF r.exc
        THEN [tr |-> AttemptReconnect([r.tr EXCEPT !.is_connected = FALSE], caller),
              raised |-> FALSE]
        ELSE [tr |-> r.tr, raised |-> FALSE]

\* Transcriber._attempt_reconnect from the end of its sleep: the delay doubles up
\* to the cap, connect runs (its own call of _attempt_reconnect returns at once,
\* reconnecting being set), and the finally clause clears reconnecting.
AfterSleep(t, how) ==
    LET t1 == [t EXCEPT !.reconnect_delay = Min(@ * 2, MaxReconnectDelay)]
        r == TranscriberConnect(t1, how, t.owner)
    IN  [r.tr EXCEPT !.reconnecting = FALSE, !.owner = "none", !.sleep_left = 0]

\* Mutant of SendAudio: the send is not guarded, its exception leaves send_audio.
SendAudioNoExcept(t, ok) ==
    IF t.connection /\ t.is_connected
    THEN [tr |-> t, raised |-> ~ok, sent |-> ok, failed |-> ~ok]
    ELSE IF ~t.is_connected /\ ~t.reconnecting
         THEN [tr |-> AttemptReconnect(t, "endpoint"),
               raised |-> FALSE, sent |-> FALSE, failed |-> FALSE]
         ELSE [tr |-> t, raised |-> FALSE, sent |-> FALSE, failed |-> FALSE]

\* Transcriber.send_audio up to its first suspension: the state, whether an
\* exception leaves it, whether the remote took the frame, whether the send raised.
SendAudio(t, ok) ==
    IF t.connection /\ t.is_connected
    THEN IF ok
         THEN [tr |-> t, raised |-> FALSE, sent |-> TRUE, failed |-> FALSE]
         ELSE [tr |-> AttemptReconnect([t EXCEPT !.is_connected = FALSE], "endpoint"),
               raised |-> FALSE, sent |-> FALSE, failed |-> TRUE]
    ELSE IF ~t.is_connected /\ ~t.reconnecting
         THEN [tr |-> AttemptReconnect(t, "endpoint"),
               raised |-> FALSE, sent |-> FALSE, failed |-> FALSE]
         ELSE [tr |-> t, raised |-> FALSE, sent |-> FALSE, failed |-> FALSE]

\* Transcriber.disconnect up to its first suspension: with a keep-alive task, the
\* task is cancelled and awaited; without one, the connection is cleaned up.
DisconnectBegin(t) ==
    IF t.keep_alive_task = "none"
    THEN CleanupConnection(t)
    ELSE [t EXCEPT !.keep_alive_task = IF @ = "running" THEN "cancelling" ELSE @,
                   !.ready = IF t.keep_alive_task = "running"
                             THEN Append(@, "cancel") ELSE @]

\* The cancelled keep-alive task wakes up with CancelledError: an attempt it was
\* sleeping in ends through its finally clause, and the task's loop breaks.
KeepAliveEnd(t) ==
    LET t1 == IF t.owner = "keepalive"
              THEN [t EXCEPT !.reconnecting = FALSE, !.owner = "none", !.sleep_left = 0]
              ELSE t
    IN  [t1 EXCEPT !.keep_alive_task = "done", !.ready = Tail(@)]

\* Transcriber.disconnect after the keep-alive task has ended: keep_alive_task is
\* None and the connection is cleaned up.
DisconnectEnd(t) == CleanupConnection([t EXCEPT !.keep_alive_task = "none"])

(***************************************************************************)
(* Transcript events. A fragment is a result of the remote service that    *)
(* carries text: [text, is_final, speech_final]; speech_final is read on   *)
(* final fragments only.                                                   *)
(***************************************************************************)
MaxFragments == 3
SecondsPerDay == 86400

Texts == {<<"headache">>, <<"two", "days">>}
Fragments == {f \in [text : Texts, is_final : BOOLEAN, speech_final : BOOLEAN] :
                  f.speech_final => f.is_final}

RECURSIVE JoinWordsReversed(_)
\* Mutant of JoinWords: the fragments are joined last to first.
JoinWordsReversed(list) ==
    IF list = <<>> THEN <<>> ELSE JoinWordsReversed(Tail(list)) \o Head(list)

RECURSIVE JoinWords(_)
\* " ".join(self.is_finals): the words of the buffered texts, in order.
JoinWords(list) == IF list = <<>> THEN <<>> ELSE Head(list) \o JoinWords(Tail(list))

\* Mutant of BufferFragment: interim fragments are buffered too.
BufferFragmentAlways(is_finals, frag) == Append(is_finals, frag.text)

\* _on_transcript: a final fragment's text is appended to is_finals.
BufferFragment(is_finals, frag) ==
    IF frag.is_final THEN Append(is_finals, frag.text) ELSE is_finals

\* datetime.fromisoformat(timestamp).strftime("%H:%M:%S"): the time of day in
\* whole seconds.
TimeOfDay(t) == (t \div TicksPerSecond) % SecondsPerDay

\* Mutant of AppendLine: the new line is put before the stored transcript.
PrependLine(current_transcript, line) == <<line>> \o current_transcript

\* _store_transcript: new_transcript is the line, after the current transcript
\* and a newline when there is one.
AppendLine(current_transcript, line) ==
    IF current_transcript # <<>> THEN current_transcript \o <<line>> ELSE <<line>>

\* The utterance is joined from the buffer, the buffer is cleared and a
\* _store_transcript coroutine is scheduled with the current time.
\* st = [t |-> the Transcriber, q |-> store_q].
Flush(a, st, t_now) ==
    [t |-> [st.t EXCEPT !.is_finals = <<>>, !.nutt = @ + 1],
     q |-> Append(st.q, [conn |-> a, visit_id |-> VisitOf(a),
                         text |-> JoinWords(st.t.is_finals),
                         timestamp |-> t_now, uid |-> st.t.nutt + 1])]

\* The line _store_transcript makes of a scheduled utterance.
LineOf(s) == [ts |-> TimeOfDay(s.timestamp), text |-> s.text, conn |-> s.conn, uid |-> s.uid]

\* The store when _store_transcript runs: reachable, or get_visit fails (it
\* returns None, and the subscript raises inside the try block), or update_visit
\* fails (it catches its exception and returns None).
TranscriptStoreOutcomes == {"ok", "read_fails", "write_fails"}

\* Mutant of StoreUtterance: an utterance whose store failed is scheduled again.
StoreUtteranceRetried(vs, q, how) ==
    LET s == Head(q)
    IN  IF how = "ok"
        THEN [visits |-> [vs EXCEPT ![s.visit_id].transcript = AppendLine(@, LineOf(s))],
              q |-> Tail(q), raised |-> FALSE, dropped |-> {}]
        ELSE [visits |-> vs, q |-> Append(Tail(q), s), raised |-> FALSE, dropped |-> {}]

\* The body of _store_transcript for the first scheduled utterance of q: the
\* visits and the queue after it, whether an exception leaves it, and the
\* utterance it has dropped.
StoreUtterance(vs, q, how) ==
    LET s == Head(q)
    IN  IF how = "ok"
        THEN [visits |-> [vs EXCEPT ![s.visit_id].transcript = AppendLine(@, LineOf(s))],
              q |-> Tail(q), raised |-> FALSE, dropped |-> {}]
        ELSE [visits |-> vs, q |-> Tail(q), raised |-> FALSE,
              dropped |-> {[conn |-> s.conn, uid |-> s.uid]}]

NoObs == [conn |-> "none", op |-> "none", raised |-> FALSE, ready |-> FALSE,
          send_failed |-> FALSE, frame |-> 0]

Observe(a, op) == [NoObs EXCEPT !.conn = a, !.op = op]

(***************************************************************************)
(* create_visit and delete_visit (app/database/database.py). db.visits is  *)
(* the visits collection as these two change it (a document for each id    *)
(* that exists), db.visit_ids the visit_ids array of each user's document  *)
(* and db.made the number of ids the store has handed out. Each call is    *)
(* two writes to the store, and either may raise.                          *)
(***************************************************************************)
MaxVisits == 3

\* The ObjectIds insert_one hands out, in order.
VisitId(n) == "n" \o ToString(n)

VisitIds == [n \in 1..MaxVisits |-> VisitId(n)]

NoVisits == [visits    |-> [i \in {} |-> NewVisit],
             visit_ids |-> [u \in Users |-> <<>>],
             made      |-> 0]

\* The document create_visit inserts, as decrypt_visit returns it.
CreatedVisit(user_id) ==
    [user_id |-> user_id, status |-> "NOT_STARTED", name |-> <<>>,
     additional_context |-> <<>>, recording_started_at |-> <<>>,
     recording_duration |-> <<>>, recording_finished_at |-> <<>>,
     transcript |-> <<>>, note |-> <<>>]

StoreOutcomes == {"ok", "first_fails", "second_fails"}

\* database.create_visit: insert_one, then $push on the user's visit_ids.
\* The result is the store after the call and the value returned ("none" for None).
CreateVisit(d, user_id, how) ==
    LET id == VisitId(d.made + 1)
        d1 == [d EXCEPT !.visits = DictSet(d.visits, id, CreatedVisit(user_id)),
                        !.made = d.made + 1]
        d2 == [d1 EXCEPT !.visit_ids[user_id] = Append(@, id)]
    IN  CASE how = "first_fails"  -> [db |-> d, ret |-> "none"]
          [] how = "second_fails" -> [db |-> d1, ret |-> "none"]
          [] how = "ok"           -> [db |-> d2, ret |-> id]

\* $pull: every occurrence of the id leaves the array.
Pull(list, id) == SelectSeq(list, LAMBDA x : x # id)

\* database.delete_visit: delete_one on the visit, then $pull on the visit_ids
\* of the user given.
DeleteVisit(d, visit_id, user_id, how) ==
    LET d1 == [d EXCEPT !.visits = IF visit_id \in DOMAIN d.visits
                                   THEN DictDel(d.visits, visit_id) ELSE @]
        d2 == [d1 EXCEPT !.visit_ids[user_id] = Pull(@, visit_id)]
    IN  CASE how = "first_fails"  -> [db |-> d, ret |-> FALSE]
          [] how = "second_fails" -> [db |-> d1, ret |-> FALSE]
          [] how = "ok"           -> [db |-> d2, ret |-> TRUE]

(***************************************************************************)
(* Initial state: one visit as create_visit leaves it, no connection yet.  *)
(***************************************************************************)
NoMsg == [conn |-> "none", type |-> "none", visit_id |-> "none"]

Init ==
    /\ now = 0
    /\ visits = [v \in Visits |-> NewVisit]
    /\ pc = [c \in Conns |-> "init"]
    /\ sock = [c \in Conns |-> "none"]
    /\ active_recordings = [c \in Conns |-> <<>>]
    /\ active_connections = [u \in {} |-> {}]
    /\ last_activity = [u \in {} |-> {}]
    /\ note_tasks = [t \in {} |-> 0]
    /\ msg = NoMsg
    /\ events = <<>>
    /\ ncmds = 0
    /\ recSince = [v \in Visits |-> 0]
    /\ recorded = [v \in Visits |-> 0]
    /\ log = <<>>
    /\ tr = [a \in Audio |-> NewTranscriber]
    /\ apc = [a \in Audio |-> "init"]
    /\ frames = [a \in Audio |-> [n |-> 0, delivered |-> {}]]
    /\ nerrs = 0
    /\ store_q = <<>>
    /\ obs = NoObs
    /\ bc = NoBroadcast
    /\ hc = NoHealthCheck
    /\ reg = NoRegistryHistory
    /\ db = NoVisits
    /\ dropped = {}

Mgr == [ac |-> active_connections, la |-> last_activity, sock |-> sock]

SetMgr(m) ==
    /\ active_connections' = m.ac
    /\ last_activity' = m.la
    /\ sock' = m.sock

\* The step registers the connections conn, removes the connections rem on
\* purpose, and its broadcasts have failed for the connections FailedIn(events').
RegistryHistory(conn, rem) ==
    reg' = [connected |-> reg.connected \cup conn,
            removed   |-> reg.removed \cup rem,
            failed    |-> reg.failed \cup FailedIn(events')]

Max0(x) == IF x < 0 THEN 0 ELSE x

\* History of the time each visit spends in RECORDING: an interval opens when the
\* status becomes RECORDING and closes when it becomes anything else; a closed
\* interval counts its whole seconds, never less than 0.
History ==
    /\ recSince' = [v \in Visits |->
            IF visits'[v].status = "RECORDING" /\ visits[v].status # "RECORDING"
            THEN now ELSE recSince[v]]
    /\ recorded' = [v \in Visits |->
            IF visits[v].status = "RECORDING" /\ visits'[v].status # "RECORDING"
            THEN recorded[v] + Max0(TimeDiff(now, recSince[v])) ELSE recorded[v]]

(***************************************************************************)
(* The clock.                                                              *)
(***************************************************************************)
Quiet == msg' = NoMsg /\ events' = <<>>

Tick ==
    /\ now < MaxTime
    /\ now' = now + 1
    /\ Quiet
    /\ UNCHANGED <<mgrVars, storeVars, streamVars, visits, pc, sock, active_recordings, active_connections,
                   last_activity, note_tasks, ncmds, recSince, recorded, log>>

\* The system clock is set back (datetime.utcnow() is not monotonic).
ClockStepBack ==
    /\ now > 0
    /\ now' = now - 1
    /\ Quiet
    /\ UNCHANGED <<mgrVars, storeVars, streamVars, visits, pc, sock, active_recordings, active_connections,
                   last_activity, note_tasks, ncmds, recSince, recorded, log>>

(***************************************************************************)
(* websocket_endpoint: one control connection.                             *)
(***************************************************************************)
\* The session is valid: manager.connect registers the connection.
Connect(c) ==
    /\ pc[c] = "init"
    /\ SetMgr(MgrConnect(Mgr, c, UserOf(c)))
    /\ pc' = [pc EXCEPT ![c] = "loop"]
    /\ Quiet
    /\ RegistryHistory({c}, {})
    /\ UNCHANGED <<bc, hc, storeVars, streamVars, now, visits, active_recordings, note_tasks, ncmds,
                   recSince, recorded, log>>

\* The session is not valid: close(1008) and return, nothing registered.
ConnectInvalid(c) ==
    /\ pc[c] = "init"
    /\ sock' = [sock EXCEPT ![c] = "closed"]
    /\ pc' = [pc EXCEPT ![c] = "done"]
    /\ Quiet
    /\ UNCHANGED <<mgrVars, storeVars, streamVars, now, visits, active_recordings, active_connections, last_activity,
                   note_tasks, ncmds, recSince, recorded, log>>

BagAdd(bag, x) == IF x \in DOMAIN bag THEN [bag EXCEPT ![x] = @ + 1]
                  ELSE DictSet(bag, x, 1)
BagRemove(bag, x) == IF bag[x] = 1 THEN DictDel(bag, x)
                     ELSE [bag EXCEPT ![x] = @ - 1]

\* Mutant of CreateNoteTask: note generation has already begun when finish returns.
CreateNoteTaskStarted(c, v) ==
    [conn |-> c, user |-> UserOf(c), visit_id |-> v, stage |-> "generating"]

\* asyncio.create_task(handle_generate_note(websocket_session_id, user_id, data))
CreateNoteTask(c, v) == [conn |-> c, user |-> UserOf(c), visit_id |-> v, stage |-> "created"]

\* The endpoint's bookkeeping of message types in active_recordings.
TrackRecording(type, list, visit_id) ==
    CASE type \in {"start_recording", "resume_recording"} -> Append(list, visit_id)
      [] type \in {"pause_recording", "finish_recording"} -> ListRemove(list, visit_id)

\* The data of a handler's broadcast message, from the visit update_visit returned.
EventData(type, vis) ==
    CASE type = "start_recording" ->
           [status |-> vis.status, recording_started_at |-> vis.recording_started_at]
      [] type = "pause_recording" ->
           [status |-> vis.status, recording_duration |-> vis.recording_duration]
      [] type = "resume_recording" ->
           [status |-> vis.status, recording_started_at |-> vis.recording_started_at]
      [] type = "finish_recording" ->
           [status |-> vis.status, recording_finished_at |-> vis.recording_finished_at,
            transcript |-> vis.transcript, recording_duration |-> vis.recording_duration]

\* The record of a broadcast, with the data of its message.
WithData(ev, data) ==
    [type |-> ev.type, visit_id |-> ev.visit_id, req |-> ev.req, user |-> ev.user,
     attempts |-> ev.attempts, count |-> ev.count, data |-> data]

\* A recording command arrives and is handled: the endpoint spawns process_message,
\* which runs the handler (its write to the visit, then its broadcast); finish also
\* creates the note-generation task. Handler tasks start in arrival order and the
\* handler's database part has no suspension point.
Command(c, type, v) ==
    /\ pc[c] = "loop"
    /\ sock[c] = "open"
    /\ ncmds' = ncmds + 1
    /\ msg' = [conn |-> c, type |-> type, visit_id |-> v]
    /\ active_recordings' = [active_recordings EXCEPT
                                ![c] = TrackRecording(type, active_recordings[c], v)]
    /\ visits' = [visits EXCEPT ![v] = HandleVisit(type, visits[v], now)]
    /\ LET b == Broadcast(Mgr, c, UserOf(c), type, v)
           visit == HandleVisit(type, visits[v], now)
       IN  SetMgr(b.m) /\ events' = <<WithData(b.ev, EventData(type, visit))>>
    /\ note_tasks' = IF type = "finish_recording"
                     THEN BagAdd(note_tasks, CreateNoteTask(c, v))
                     ELSE note_tasks
    /\ History
    /\ RegistryHistory({}, {})
    /\ UNCHANGED <<bc, hc, storeVars, streamVars, now, pc>>

Receive(c, type, v) ==
    /\ ncmds < MaxCmds
    /\ Command(c, type, v)
    /\ UNCHANGED log

\* A message arrives whose session is no longer valid while active_recordings is
\* empty: close(1008) and return. The registry is not touched.
ReceiveInvalidSession(c) ==
    /\ pc[c] = "loop"
    /\ sock[c] = "open"
    /\ active_recordings[c] = <<>>
    /\ sock' = [sock EXCEPT ![c] = "closed"]
    /\ pc' = [pc EXCEPT ![c] = "done"]
    /\ Quiet
    /\ UNCHANGED <<mgrVars, storeVars, streamVars, now, visits, active_recordings, active_connections, last_activity,
                   note_tasks, ncmds, recSince, recorded, log>>

\* receive_json or the message's validation raises (a frame that is no valid
\* message): the generic except logs and closes with 1011. No pause is made and
\* the registry is not touched.
HandlerError(c) ==
    /\ pc[c] = "loop"
    /\ sock[c] = "open"
    /\ sock' = [sock EXCEPT ![c] = "closed"]
    /\ pc' = [pc EXCEPT ![c] = "done"]
    /\ active_recordings' = [active_recordings EXCEPT ![c] = <<>>]
    /\ Quiet
    /\ UNCHANGED <<mgrVars, storeVars, streamVars, now, visits, active_connections, last_activity,
                   note_tasks, ncmds, recSince, recorded, log>>

\* The peer vanishes without a close frame: sends to it fail from now on.
PeerLost(c) ==
    /\ pc[c] = "loop"
    /\ sock[c] = "open"
    /\ sock' = [sock EXCEPT ![c] = "dead"]
    /\ Quiet
    /\ UNCHANGED <<mgrVars, storeVars, streamVars, now, visits, pc, active_recordings, active_connections, last_activity,
                   note_tasks, ncmds, recSince, recorded, log>>

RECURSIVE DisconnectLoop(_, _, _)
\* The WebSocketDisconnect handler's loop over active_recordings: for each entry,
\* the pause computation, the write and a pause_recording broadcast.
\* st = [visits, m, events].
DisconnectLoop(list, st, c) ==
    IF list = <<>> THEN st
    ELSE LET v == Head(list)
             b == Broadcast(st.m, c, UserOf(c), "pause_recording", v)
         IN  DisconnectLoop(Tail(list),
                 [visits |-> [st.visits EXCEPT ![v] = PauseVisit(st.visits[v], now)],
                  m      |-> b.m,
                  events |-> Append(st.events, b.ev)], c)

\* receive_json raises WebSocketDisconnect: the loop above, then manager.disconnect.
Disconnect(c) ==
    /\ pc[c] = "loop"
    /\ msg' = [conn |-> c, type |-> "disconnect", visit_id |-> "none"]
    /\ LET m0 == [Mgr EXCEPT !.sock[c] = "closed"]
           st == DisconnectLoop(active_recordings[c],
                                [visits |-> visits, m |-> m0, events |-> <<>>], c)
       IN  /\ visits' = st.visits
           /\ events' = st.events
           /\ SetMgr(RemoveConnection(st.m, c, UserOf(c)))
    /\ pc' = [pc EXCEPT ![c] = "done"]
    /\ active_recordings' = [active_recordings EXCEPT ![c] = <<>>]
    /\ History
    /\ RegistryHistory({}, {c})
    /\ UNCHANGED <<bc, hc, storeVars, streamVars, now, note_tasks, ncmds, log>>

(***************************************************************************)
(* handle_generate_note, the task finish_recording creates. The tasks in   *)
(* flight are a bag: note_tasks maps a task (its arguments and its stage)  *)
(* to the number of such tasks. Whether the transcript and context hold    *)
(* fewer than 10 words is an input here.                                   *)
(***************************************************************************)
\* Fewer than 10 words: status FINISHED with the "insufficient" note, one
\* note_generated broadcast, and the task returns.
NoteInsufficient(t) ==
    /\ t.stage = "created"
    /\ LET b == Broadcast(Mgr, t.conn, t.user, "note_generated", t.visit_id)
       IN  /\ visits' = [visits EXCEPT ![t.visit_id].status = "FINISHED"]
           /\ SetMgr(b.m)
           /\ events' = <<b.ev>>
    /\ note_tasks' = BagRemove(note_tasks, t)
    /\ msg' = NoMsg
    /\ History
    /\ RegistryHistory({}, {})
    /\ UNCHANGED <<bc, hc, storeVars, streamVars, now, pc, active_recordings, ncmds, log>>

\* Otherwise: status GENERATING_NOTE, and the sections are requested.
NoteBegin(t) ==
    /\ t.stage = "created"
    /\ visits' = [visits EXCEPT ![t.visit_id].status = "GENERATING_NOTE"]
    /\ note_tasks' = BagAdd(BagRemove(note_tasks, t), [t EXCEPT !.stage = "generating"])
    /\ Quiet
    /\ History
    /\ UNCHANGED <<mgrVars, storeVars, streamVars, now, pc, sock, active_recordings, active_connections, last_activity,
                   ncmds, log>>

\* handle_section_response: a section arrives and the combined note is broadcast.
NoteSection(t) ==
    /\ t.stage = "generating"
    /\ LET b == Broadcast(Mgr, t.conn, t.user, "note_generated", t.visit_id)
       IN  SetMgr(b.m) /\ events' = <<b.ev>>
    /\ msg' = NoMsg
    /\ RegistryHistory({}, {})
    /\ UNCHANGED <<bc, hc, storeVars, streamVars, now, visits, pc, active_recordings, note_tasks, ncmds,
                   recSince, recorded, log>>

\* All sections are in: the note is stored with status FINISHED and broadcast.
NoteEnd(t) ==
    /\ t.stage = "generating"
    /\ LET b == Broadcast(Mgr, t.conn, t.user, "note_generated", t.visit_id)
       IN  /\ visits' = [visits EXCEPT ![t.visit_id].status = "FINISHED"]
           /\ SetMgr(b.m)
           /\ events' = <<b.ev>>
    /\ note_tasks' = BagRemove(note_tasks, t)
    /\ msg' = NoMsg
    /\ History
    /\ RegistryHistory({}, {})
    /\ UNCHANGED <<bc, hc, storeVars, streamVars, now, pc, active_recordings, ncmds, log>>

(***************************************************************************)
(* Visits made and deleted (SpecVisits).                                   *)
(***************************************************************************)
\* handle_create_visit: db.create_visit(user_id) for the user of the session.
CreateVisitCall(user_id, how) ==
    /\ db.made < MaxVisits
    /\ LET r == CreateVisit(db, user_id, how)
       IN  /\ db' = r.db
           /\ msg' = [conn |-> user_id, type |-> "create_visit", visit_id |-> r.ret]
    /\ events' = <<>>
    /\ UNCHANGED <<mgrVars, dropped, streamVars, now, visits, pc, sock, active_recordings,
                   active_connections, last_activity, note_tasks, ncmds, recSince,
                   recorded, log>>

\* handle_delete_visit: db.delete_visit(data["visit_id"], user_id) with the id
\* the client names and the user of the session.
DeleteVisitCall(visit_id, user_id, how) ==
    /\ LET r == DeleteVisit(db, visit_id, user_id, how)
       IN  /\ db' = r.db
           /\ msg' = [conn |-> user_id, type |-> "delete_visit", visit_id |-> visit_id]
    /\ events' = <<>>
    /\ UNCHANGED <<mgrVars, dropped, streamVars, now, visits, pc, sock, active_recordings,
                   active_connections, last_activity, note_tasks, ncmds, recSince,
                   recorded, log>>

(***************************************************************************)
(* The manager's coroutines one step at a time (SpecRegistry).             *)
(***************************************************************************)
\* The broadcast nb goes on under the manager state m: it is suspended again,
\* or it has returned, and then its caller goes on: a process_message task
\* ends, the disconnect handler of an endpoint runs up to its next await.
Proceed(nb, m, failed) ==
    IF nb.phase # "returned"
    THEN /\ bc' = nb
         /\ SetMgr(m)
         /\ events' = <<>>
         /\ reg' = [reg EXCEPT !.failed = @ \cup failed]
         /\ UNCHANGED <<visits, pc, recSince, recorded>>
    ELSE /\ events' = <<EventOf(nb)>>
         /\ IF nb.owner = "task"
            THEN /\ bc' = NoBroadcast
                 /\ SetMgr(m)
                 /\ reg' = [reg EXCEPT !.failed = @ \cup failed]
                 /\ UNCHANGED <<visits, pc, recSince, recorded>>
            ELSE \E r \in HandlerRun(nb.todo, visits, m, nb.owner, now) :
                    /\ bc' = r.bc
                    /\ SetMgr(r.m)
                    /\ visits' = r.visits
                    /\ pc' = [pc EXCEPT ![nb.owner] = IF r.done THEN "done" ELSE @]
                    /\ reg' = [reg EXCEPT !.failed = @ \cup failed,
                                          !.removed = IF r.done THEN @ \cup {nb.owner} ELSE @]
                    /\ History

\* A process_message task of connection c, handling a message that is no
\* recording command, reaches manager.broadcast: 0 is returned at once when the
\* user has no connection, else the first send_json is awaited.
BroadcastBegin(c) ==
    /\ pc[c] = "loop"
    /\ sock[c] = "open"
    /\ bc.phase = "none"
    /\ ncmds < MaxFanout
    /\ ncmds' = ncmds + 1
    /\ msg' = [conn |-> c, type |-> "update_user", visit_id |-> "none"]
    /\ LET b0 == [NoBroadcast EXCEPT !.req = c, !.user = UserOf(c), !.owner = "task",
                                     !.type = "update_user",
                                     !.copy = IF UserOf(c) \in DOMAIN active_connections
                                              THEN active_connections[UserOf(c)] ELSE {}]
       IN  IF Sends(Mgr, b0) = {}
           THEN bc' = NoBroadcast /\ events' = <<EventOf(b0)>>
           ELSE \E s \in Sends(Mgr, b0) : bc' = s /\ events' = <<>>
    /\ UNCHANGED <<hc, reg, storeVars, streamVars, now, visits, pc, sock, active_recordings,
                   active_connections, last_activity, note_tasks, recSince, recorded, log>>

\* The outcomes of a suspended send_json: it returns on an open transport and
\* raises on one that was not open when it began; when the transport was open
\* then and has been closed since, the frame may have left before the close.
SendOutcomes(b, s) ==
    IF SendOk(s) THEN {TRUE} ELSE IF b.begun_open THEN {TRUE, FALSE} ELSE {FALSE}

\* The send_json that broadcast awaits returns or raises: the count or the
\* failed list grows and the loop goes on.
BroadcastDeliver ==
    /\ bc.phase = "sending"
    /\ msg' = NoMsg
    /\ \E ok \in SendOutcomes(bc, sock[bc.cur]) :
       LET r  == TouchActivity(Mgr, bc.cur, bc.user)
           b1 == IF ~ok THEN [bc EXCEPT !.failed = @ \cup {bc.cur}]
                 ELSE IF r.exc
                 THEN [bc EXCEPT !.sent = @ \cup {bc.cur}, !.failed = @ \cup {bc.cur},
                                 !.errors = @ + 1]
                 ELSE [bc EXCEPT !.sent = @ \cup {bc.cur}]
           m1 == IF ok THEN r.m ELSE Mgr
       IN  \E nb \in LoopNext(m1, b1) :
                Proceed(nb, m1, IF ok THEN {} ELSE {bc.cur})
    /\ UNCHANGED <<hc, storeVars, streamVars, now, active_recordings, note_tasks, ncmds, log>>

\* broadcast's second loop: _remove_connection for one failed session, up to its
\* close; after the last one broadcast returns.
BroadcastRemove ==
    /\ bc.phase = "removing"
    /\ msg' = NoMsg
    /\ \E sid \in bc.failed :
         LET m1 == RemoveConnection(Mgr, sid, bc.user)
             b1 == [bc EXCEPT !.failed = @ \ {sid}]
         IN  Proceed(IF b1.failed = {} THEN [b1 EXCEPT !.phase = "returned"] ELSE b1,
                     m1, {})
    /\ UNCHANGED <<hc, storeVars, streamVars, now, active_recordings, note_tasks, ncmds, log>>

\* receive_json raises WebSocketDisconnect: the client has closed (client_state
\* DISCONNECTED) and the handler runs up to its first await.
ClientGone(c) ==
    /\ pc[c] = "loop"
    /\ sock[c] \in {"open", "dead"}
    /\ active_recordings[c] = <<>> \/ bc.phase = "none"
    /\ msg' = [conn |-> c, type |-> "disconnect", visit_id |-> "none"]
    /\ events' = <<>>
    /\ \E r \in HandlerRun(active_recordings[c], visits,
                            [Mgr EXCEPT !.sock[c] = "disconnected"], c, now) :
            /\ bc' = IF r.done THEN bc ELSE r.bc
            /\ SetMgr(r.m)
            /\ visits' = r.visits
            /\ pc' = [pc EXCEPT ![c] = IF r.done THEN "done" ELSE "disconnecting"]
            /\ reg' = [reg EXCEPT !.removed = IF r.done THEN @ \cup {c} ELSE @]
    /\ active_recordings' = [active_recordings EXCEPT ![c] = <<>>]
    /\ History
    /\ UNCHANGED <<hc, storeVars, streamVars, now, note_tasks, ncmds, log>>

\* start_connection_manager: the health check task is created. No code of the
\* application calls it (startup_event in main.py is empty).
StartHealthCheck ==
    /\ hc.task = "none"
    /\ hc' = [hc EXCEPT !.task = "sleeping"]
    /\ Quiet
    /\ UNCHANGED <<bc, reg, storeVars, streamVars, now, visits, pc, sock, active_recordings,
                   active_connections, last_activity, note_tasks, ncmds, recSince,
                   recorded, log>>

\* _health_check_loop: the sleep is over and _check_connections runs up to its
\* first await, or to its end.
HealthCheckWake ==
    /\ hc.task = "sleeping"
    /\ \E r \in CheckConnections(Mgr, [hc EXCEPT !.users = DOMAIN active_connections]) :
            /\ hc' = r.hc
            /\ SetMgr(r.m)
            /\ reg' = [reg EXCEPT !.removed = @ \cup ({r.removed} \ {"none"})]
            /\ msg' = [conn |-> r.removed, type |-> "health_check", visit_id |-> "none"]
    /\ events' = <<>>
    /\ UNCHANGED <<bc, storeVars, streamVars, now, visits, pc, active_recordings, note_tasks,
                   ncmds, recSince, recorded, log>>

\* The close that _check_connections awaits returns, and the scan goes on.
HealthCheckResume ==
    /\ hc.task = "scanning"
    /\ \E r \in CheckConnections(Mgr, hc) :
            /\ hc' = r.hc
            /\ SetMgr(r.m)
            /\ reg' = [reg EXCEPT !.removed = @ \cup ({r.removed} \ {"none"})]
            /\ msg' = [conn |-> r.removed, type |-> "health_check", visit_id |-> "none"]
    /\ events' = <<>>
    /\ UNCHANGED <<bc, storeVars, streamVars, now, visits, pc, active_recordings, note_tasks,
                   ncmds, recSince, recorded, log>>

(***************************************************************************)
(* The transcribe endpoint and the tasks of its Transcriber.               *)
(***************************************************************************)
\* transcribe: the connection is accepted, the Transcriber is built and connect is
\* awaited. When connect returns at once, {"status": "ready"} is sent and the
\* receive loop begins; when it sleeps in a reconnection attempt, the endpoint waits.
AudioOpen(a, how) ==
    /\ apc[a] = "init"
    /\ LET r == TranscriberConnect(NewTranscriber, how, "endpoint")
           waits == r.tr.owner = "endpoint"
       IN  /\ tr' = [tr EXCEPT ![a] = r.tr]
           /\ apc' = [apc EXCEPT ![a] = IF r.raised THEN "raised"
                                        ELSE IF waits THEN "connecting" ELSE "loop"]
           /\ obs' = [Observe(a, "connect") EXCEPT !.raised = r.raised,
                                                   !.ready = ~r.raised /\ ~waits]
    /\ Quiet
    /\ UNCHANGED <<mgrVars, storeVars, now, visits, pc, sock, active_recordings, active_connections,
                   last_activity, note_tasks, ncmds, recSince, recorded, log,
                   frames, nerrs, store_q>>

\* One second of an attempt's sleep passes.
SleepTick(a) ==
    /\ tr[a].owner # "none"
    /\ tr[a].sleep_left > 0
    /\ tr' = [tr EXCEPT ![a].sleep_left = @ - 1, ![a].slept = @ + 1]
    /\ obs' = Observe(a, "sleep")
    /\ Quiet
    /\ UNCHANGED <<mgrVars, storeVars, now, visits, pc, sock, active_recordings, active_connections,
                   last_activity, note_tasks, ncmds, recSince, recorded, log,
                   apc, frames, nerrs, store_q>>

\* The sleep of an attempt is over: the rest of _attempt_reconnect runs and its
\* caller goes on. The endpoint waiting in connect sends ready; the endpoint
\* waiting in send_audio returns to its receive loop.
Wake(a, how) ==
    /\ tr[a].owner # "none"
    /\ tr[a].sleep_left = 0
    /\ ~(tr[a].owner = "keepalive" /\ tr[a].keep_alive_task = "cancelling")
    /\ tr' = [tr EXCEPT ![a] = AfterSleep(tr[a], how)]
    /\ apc' = [apc EXCEPT ![a] = IF tr[a].owner = "endpoint" THEN "loop" ELSE @]
    /\ obs' = [Observe(a, "reconnect") EXCEPT
                  !.ready = tr[a].owner = "endpoint" /\ apc[a] = "connecting"]
    /\ Quiet
    /\ UNCHANGED <<mgrVars, storeVars, now, visits, pc, sock, active_recordings, active_connections,
                   last_activity, note_tasks, ncmds, recSince, recorded, log,
                   frames, nerrs, store_q>>

\* The receive loop: a frame arrives and send_audio is awaited. An exception
\* leaving send_audio takes the endpoint to its generic except.
AudioFrame(a, ok) ==
    /\ apc[a] = "loop"
    /\ frames[a].n < MaxFrames
    /\ LET r == SendAudio(tr[a], ok)
           f == frames[a].n + 1
       IN  /\ tr' = [tr EXCEPT ![a] = r.tr]
           /\ apc' = [apc EXCEPT ![a] = IF r.raised THEN "raised"
                                        ELSE IF r.tr.owner = "endpoint" THEN "sending"
                                        ELSE "loop"]
           /\ frames' = [frames EXCEPT ![a] =
                            [n |-> f,
                             delivered |-> IF r.sent THEN @.delivered \cup {f}
                                           ELSE @.delivered]]
           /\ obs' = [Observe(a, "send_audio") EXCEPT !.raised = r.raised,
                                                      !.send_failed = r.failed,
                                                      !.frame = f]
    /\ Quiet
    /\ UNCHANGED <<mgrVars, storeVars, now, visits, pc, sock, active_recordings, active_connections,
                   last_activity, note_tasks, ncmds, recSince, recorded, log,
                   nerrs, store_q>>

\* receive_bytes raises WebSocketDisconnect (the client closed the audio
\* connection), or the endpoint is in its generic except: transcriber.disconnect()
\* is awaited.
AudioClose(a) ==
    /\ apc[a] \in {"loop", "raised"}
    /\ tr' = [tr EXCEPT ![a] = DisconnectBegin(tr[a])]
    /\ apc' = [apc EXCEPT ![a] = IF tr[a].keep_alive_task = "none"
                                 THEN "closed" ELSE "disconnecting"]
    /\ obs' = Observe(a, "disconnect")
    /\ Quiet
    /\ UNCHANGED <<mgrVars, storeVars, now, visits, pc, sock, active_recordings, active_connections,
                   last_activity, note_tasks, ncmds, recSince, recorded, log,
                   frames, nerrs, store_q>>

\* The cancelled keep-alive task runs and ends.
KeepAliveCancelled(a) ==
    /\ tr[a].ready # <<>>
    /\ Head(tr[a].ready) = "cancel"
    /\ tr' = [tr EXCEPT ![a] = KeepAliveEnd(tr[a])]
    /\ obs' = Observe(a, "keep_alive_cancelled")
    /\ Quiet
    /\ UNCHANGED <<mgrVars, storeVars, now, visits, pc, sock, active_recordings, active_connections,
                   last_activity, note_tasks, ncmds, recSince, recorded, log,
                   apc, frames, nerrs, store_q>>

\* disconnect goes on after the keep-alive task it awaited has ended.
AudioClosed(a) ==
    /\ apc[a] = "disconnecting"
    /\ tr[a].keep_alive_task = "done"
    /\ tr' = [tr EXCEPT ![a] = DisconnectEnd(tr[a])]
    /\ apc' = [apc EXCEPT ![a] = "closed"]
    /\ obs' = Observe(a, "disconnected")
    /\ Quiet
    /\ UNCHANGED <<mgrVars, storeVars, now, visits, pc, sock, active_recordings, active_connections,
                   last_activity, note_tasks, ncmds, recSince, recorded, log,
                   frames, nerrs, store_q>>

\* Transcriber._keep_alive, one round in which it sends: the send succeeds, or it
\* raises, the session is marked disconnected and _attempt_reconnect is awaited.
KeepAlive(a, ok) ==
    /\ tr[a].keep_alive_task = "running"
    /\ tr[a].owner # "keepalive"
    /\ tr[a].connection /\ tr[a].is_connected
    /\ tr' = [tr EXCEPT ![a] =
                 IF ok THEN @
                 ELSE AttemptReconnect([@ EXCEPT !.is_connected = FALSE], "keepalive")]
    /\ obs' = [Observe(a, "keep_alive") EXCEPT !.send_failed = ~ok]
    /\ Quiet
    /\ UNCHANGED <<mgrVars, storeVars, now, visits, pc, sock, active_recordings, active_connections,
                   last_activity, note_tasks, ncmds, recSince, recorded, log,
                   apc, frames, nerrs, store_q>>

\* Transcriber._on_error, called by the remote connection's thread: the session is
\* marked disconnected and an _attempt_reconnect coroutine is scheduled on the loop.
OnError(a) ==
    /\ apc[a] # "init"
    /\ tr[a].connection
    /\ nerrs < MaxErrors
    /\ nerrs' = nerrs + 1
    /\ tr' = [tr EXCEPT ![a].is_connected = FALSE, ![a].ready = Append(@, "task")]
    /\ obs' = Observe(a, "on_error")
    /\ Quiet
    /\ UNCHANGED <<mgrVars, storeVars, now, visits, pc, sock, active_recordings, active_connections,
                   last_activity, note_tasks, ncmds, recSince, recorded, log,
                   apc, frames, store_q>>

\* A scheduled _attempt_reconnect coroutine starts.
RunReconnectTask(a) ==
    /\ tr[a].ready # <<>>
    /\ Head(tr[a].ready) = "task"
    /\ tr' = [tr EXCEPT ![a] = AttemptReconnect([@ EXCEPT !.ready = Tail(@)], "task")]
    /\ obs' = Observe(a, "reconnect_task")
    /\ Quiet
    /\ UNCHANGED <<mgrVars, storeVars, now, visits, pc, sock, active_recordings, active_connections,
                   last_activity, note_tasks, ncmds, recSince, recorded, log,
                   apc, frames, nerrs, store_q>>

\* Fragments received so far, over all sessions.
RECURSIVE CountHeard(_)
CountHeard(S) == IF S = {} THEN 0
                 ELSE LET a == CHOOSE x \in S : TRUE
                      IN  Len(tr[a].heard) + CountHeard(S \ {a})

\* Transcriber._on_transcript, called by the remote connection's thread with a
\* result that carries text.
OnTranscript(a, frag) ==
    /\ apc[a] # "init"
    /\ tr[a].connection
    /\ CountHeard(Audio) < MaxFragments
    /\ LET t1 == [tr[a] EXCEPT !.is_finals = BufferFragment(@, frag),
                               !.heard = Append(@, frag)]
           st == IF frag.is_final /\ frag.speech_final
                 THEN Flush(a, [t |-> t1, q |-> store_q], now)
                 ELSE [t |-> t1, q |-> store_q]
       IN  tr' = [tr EXCEPT ![a] = st.t] /\ store_q' = st.q
    /\ obs' = NoObs
    /\ Quiet
    /\ UNCHANGED <<mgrVars, storeVars, now, visits, pc, sock, active_recordings, active_connections,
                   last_activity, note_tasks, ncmds, recSince, recorded, log,
                   apc, frames, nerrs>>

\* Transcriber._on_transcript with a result that has no channel, no alternative
\* or an empty transcript: it returns at once.
OnEmptyResult(a) ==
    /\ apc[a] # "init"
    /\ tr[a].connection
    /\ obs' = NoObs
    /\ Quiet
    /\ UNCHANGED <<mgrVars, storeVars, now, visits, pc, sock, active_recordings, active_connections,
                   last_activity, note_tasks, ncmds, recSince, recorded, log,
                   tr, apc, frames, nerrs, store_q>>

\* Transcriber._on_utterance_end: a buffer that is not empty is flushed.
OnUtteranceEnd(a) ==
    /\ apc[a] # "init"
    /\ tr[a].connection
    /\ LET st == IF tr[a].is_finals # <<>>
                 THEN Flush(a, [t |-> tr[a], q |-> store_q], now)
                 ELSE [t |-> tr[a], q |-> store_q]
       IN  tr' = [tr EXCEPT ![a] = st.t] /\ store_q' = st.q
    /\ obs' = NoObs
    /\ msg' = [conn |-> a, type |-> "utterance_end", visit_id |-> VisitOf(a)]
    /\ events' = <<>>
    /\ UNCHANGED <<mgrVars, storeVars, now, visits, pc, sock, active_recordings, active_connections,
                   last_activity, note_tasks, ncmds, recSince, recorded, log,
                   apc, frames, nerrs>>

\* Transcriber._store_transcript with the store in state how: the first
\* scheduled coroutine runs. It reads the visit's transcript and writes it back
\* with the new line; it has no suspension point.
StoreTranscriptCall(how) ==
    /\ store_q # <<>>
    /\ LET r == StoreUtterance(visits, store_q, how)
       IN  /\ visits' = r.visits
           /\ store_q' = r.q
           /\ dropped' = dropped \cup r.dropped
           /\ obs' = IF how = "ok" THEN NoObs
                     ELSE [Observe(Head(store_q).conn, "store_failed")
                              EXCEPT !.raised = r.raised]
    /\ Quiet
    /\ UNCHANGED <<mgrVars, db, now, pc, sock, active_recordings, active_connections,
                   last_activity, note_tasks, ncmds, recSince, recorded, log,
                   tr, apc, frames, nerrs>>

\* _store_transcript with the store reachable.
StoreTranscript == StoreTranscriptCall("ok")

(***************************************************************************)
(* Specifications.                                                         *)
(*                                                                         *)
(* Spec: the recording state machine under a moving clock, commanded from  *)
(* two control connections of one user (two tabs).                         *)
(***************************************************************************)
Tabs == {"c1", "c2"}

Next ==
    \/ Tick
    \/ ClockStepBack
    \/ \E c \in Tabs : Connect(c)
    \/ \E c \in Tabs, type \in Commands, v \in Visits : Receive(c, type, v)
    \/ \E c \in Tabs : HandlerError(c)
    \/ \E c \in Tabs : Disconnect(c)
    \/ \E t \in DOMAIN note_tasks : NoteInsufficient(t)
    \/ \E t \in DOMAIN note_tasks : NoteBegin(t)
    \/ \E t \in DOMAIN note_tasks : NoteEnd(t)

Spec == Init /\ [][Next]_vars

(***************************************************************************)
(* SpecBroadcast: the connection registry and its broadcasts, with the     *)
(* connections of two users, every exit path of the endpoint and peers     *)
(* that vanish. The clock stands still and MaxFanout commands are handled. *)
(***************************************************************************)
NextBroadcast ==
    \/ \E c \in Conns : Connect(c)
    \/ \E c \in Conns : ConnectInvalid(c)
    \/ \E c \in Conns, type \in Commands, v \in Visits :
            ncmds < MaxFanout /\ Receive(c, type, v)
    \/ \E c \in Conns : ReceiveInvalidSession(c)
    \/ \E c \in Conns : HandlerError(c)
    \/ \E c \in Conns : PeerLost(c)
    \/ \E c \in Conns : Disconnect(c)
    \/ \E t \in DOMAIN note_tasks : NoteInsufficient(t)
    \/ \E t \in DOMAIN note_tasks : NoteBegin(t)
    \/ \E t \in DOMAIN note_tasks : NoteSection(t)
    \/ \E t \in DOMAIN note_tasks : NoteEnd(t)

SpecBroadcast == Init /\ [][NextBroadcast]_vars

(***************************************************************************)
(* SpecScenario: the commands of one control connection under a clock that *)
(* only advances, through the readings of the end-to-end scenario (0 s,    *)
(* 10 s, 20 s, 50 s) and one reading off the whole second. Every command   *)
(* is logged with the clock reading it was handled at.                     *)
(***************************************************************************)
ScenarioSeconds == {0, 10, 20, 50}
ScenarioReadings == {s * TicksPerSecond : s \in ScenarioSeconds}
                        \cup {10 * TicksPerSecond + 1}
ScenarioConns == {"c1"}

ScenarioClock ==
    /\ \E t \in ScenarioReadings : t > now /\ now' = t
    /\ Quiet
    /\ UNCHANGED <<mgrVars, storeVars, streamVars, visits, pc, sock, active_recordings, active_connections,
                   last_activity, note_tasks, ncmds, recSince, recorded, log>>

ScenarioReceive(c, type, v) ==
    /\ Len(log) < MaxLog
    /\ Command(c, type, v)
    /\ log' = Append(log, [type |-> type, visit_id |-> v, at |-> now])

NextScenario ==
    \/ ScenarioClock
    \/ \E c \in ScenarioConns : Connect(c)
    \/ \E c \in ScenarioConns, type \in Commands, v \in Visits : ScenarioReceive(c, type, v)
    \/ \E t \in DOMAIN note_tasks : NoteInsufficient(t)
    \/ \E t \in DOMAIN note_tasks : NoteBegin(t)
    \/ \E t \in DOMAIN note_tasks : NoteEnd(t)

SpecScenario == Init /\ [][NextScenario]_vars

(***************************************************************************)
(* SpecStream: one audio connection and its Transcriber against a remote   *)
(* service that fails at will: connects and reconnection attempts, audio   *)
(* frames, keep-alive rounds, remote error callbacks.                      *)
(***************************************************************************)
StreamConns == {"a1"}

NextStream ==
    \/ \E a \in StreamConns, how \in ConnectOutcomes : AudioOpen(a, how)
    \/ \E a \in StreamConns : SleepTick(a)
    \/ \E a \in StreamConns, how \in ConnectOutcomes : Wake(a, how)
    \/ \E a \in StreamConns, ok \in BOOLEAN : AudioFrame(a, ok)
    \/ \E a \in StreamConns : AudioClose(a)
    \/ \E a \in StreamConns : KeepAliveCancelled(a)
    \/ \E a \in StreamConns : AudioClosed(a)
    \/ \E a \in StreamConns, ok \in BOOLEAN : KeepAlive(a, ok)
    \/ \E a \in StreamConns : OnError(a)
    \/ \E a \in StreamConns : RunReconnectTask(a)

SpecStream == Init /\ [][NextStream]_vars

(***************************************************************************)
(* SpecTranscript: the transcript events of two audio connections of one   *)
(* visit, both connected to the remote service, and the stores they        *)
(* schedule, under a clock that advances. The store is reachable.          *)
(***************************************************************************)
NextTranscript ==
    \/ Tick
    \/ \E a \in Audio : AudioOpen(a, "ok")
    \/ \E a \in Audio, frag \in Fragments : OnTranscript(a, frag)
    \/ \E a \in Audio : OnEmptyResult(a)
    \/ \E a \in Audio : OnUtteranceEnd(a)
    \/ StoreTranscript

SpecTranscript == Init /\ [][NextTranscript]_vars

(***************************************************************************)
(* SpecSession: a recording session as a whole. Two control connections of *)
(* one user command the visit under a clock that advances, the audio       *)
(* connection of the session is open, MaxSpoken fragments are transcribed  *)
(* and stored, and the note tasks of finish run.                           *)
(***************************************************************************)
MaxSpoken == 1

NextSession ==
    \/ Tick
    \/ \E c \in Tabs : Connect(c)
    \/ \E c \in Tabs, type \in Commands, v \in Visits :
            ncmds < MaxFanout /\ Receive(c, type, v)
    \/ \E a \in StreamConns : AudioOpen(a, "ok")
    \/ \E a \in StreamConns, frag \in Fragments :
            CountHeard(Audio) < MaxSpoken /\ OnTranscript(a, frag)
    \/ StoreTranscript
    \/ \E t \in DOMAIN note_tasks : NoteInsufficient(t)
    \/ \E t \in DOMAIN note_tasks : NoteBegin(t)
    \/ \E t \in DOMAIN note_tasks : NoteEnd(t)

SpecSession == Init /\ [][NextSession]_vars

(***************************************************************************)
(* SpecStreams: the audio connections of one visit next to its control     *)
(* connection. Both audio connections are opened and closed at will while  *)
(* the control connection commands the visit.                              *)
(***************************************************************************)
NextStreams ==
    \/ \E c \in {"c1"} : Connect(c)
    \/ \E c \in {"c1"}, type \in Commands, v \in Visits :
            ncmds < MaxFanout /\ Receive(c, type, v)
    \/ \E a \in Audio : AudioOpen(a, "ok")
    \/ \E a \in Audio : AudioClose(a)
    \/ \E a \in Audio : KeepAliveCancelled(a)
    \/ \E a \in Audio : AudioClosed(a)

SpecStreams == Init /\ [][NextStreams]_vars

(***************************************************************************)
(* SpecRegistry: the registry under concurrent coroutines. The connections *)
(* of two users connect, start recordings, leave by every exit path and    *)
(* vanish, while a broadcast runs from one await to the next and the       *)
(* health check scans the registry. MaxFanout messages are handled.        *)
(***************************************************************************)
NextRegistry ==
    \/ \E c \in Conns : Connect(c)
    \/ \E c \in Conns, v \in Visits :
            ncmds < MaxFanout /\ Receive(c, "start_recording", v)
    \/ \E c \in Conns : HandlerError(c)
    \/ \E c \in Conns : PeerLost(c)
    \/ \E c \in Conns : ClientGone(c)
    \/ \E c \in Conns : BroadcastBegin(c)
    \/ BroadcastDeliver
    \/ BroadcastRemove
    \/ StartHealthCheck
    \/ HealthCheckWake
    \/ HealthCheckResume

SpecRegistry == Init /\ [][NextRegistry]_vars

\* The event loop runs every coroutine that is ready: a suspended broadcast goes
\* on, and the health check task, once it exists, wakes and goes on. Nothing
\* makes a client send or leave, and nothing calls start_connection_manager.
SpecRegistryFair ==
    /\ SpecRegistry
    /\ WF_vars(BroadcastDeliver)
    /\ WF_vars(BroadcastRemove)
    /\ WF_vars(HealthCheckWake)
    /\ WF_vars(HealthCheckResume)

(***************************************************************************)
(* SpecVisits: the users create visits and delete visits by id, their own  *)
(* and each other's, over a store whose writes may fail.                   *)
(***************************************************************************)
NextVisits ==
    \/ \E u \in Users, how \in StoreOutcomes : CreateVisitCall(u, how)
    \/ \E i \in 1..MaxVisits, u \in Users, how \in StoreOutcomes :
            DeleteVisitCall(VisitIds[i], u, how)

SpecVisits == Init /\ [][NextVisits]_vars

(***************************************************************************)
(* SpecStore: the transcript callbacks of one session over a store that    *)
(* may fail each time an utterance is stored.                              *)
(***************************************************************************)
NextStore ==
    \/ \E a \in StreamConns : AudioOpen(a, "ok")
    \/ \E a \in StreamConns, frag \in Fragments : OnTranscript(a, frag)
    \/ \E a \in StreamConns : OnUtteranceEnd(a)
    \/ \E how \in TranscriptStoreOutcomes : StoreTranscriptCall(how)

SpecStore == Init /\ [][NextStore]_vars

(***************************************************************************)
(* SpecFinals: one audio session from its connection to its close. The     *)
(* remote service delivers fragments and utterance-end signals while the   *)
(* stream is up, the client closes the audio connection at any moment, and *)
(* the scheduled stores run against a reachable store. SpecFinalsFair adds *)
(* what the event loop and the remote service guarantee: a scheduled store *)
(* runs, a cancelled keep-alive task ends, disconnect goes on once it has  *)
(* ended, and a stream that stays up with buffered speech gets its         *)
(* utterance-end signal.                                                   *)
(***************************************************************************)
NextFinals ==
    \/ \E a \in StreamConns : AudioOpen(a, "ok")
    \/ \E a \in StreamConns, frag \in Fragments : OnTranscript(a, frag)
    \/ \E a \in StreamConns : OnUtteranceEnd(a)
    \/ \E a \in StreamConns : AudioClose(a)
    \/ \E a \in StreamConns : KeepAliveCancelled(a)
    \/ \E a \in StreamConns : AudioClosed(a)
    \/ StoreTranscript

SpecFinals == Init /\ [][NextFinals]_vars

SpecFinalsFair ==
    /\ SpecFinals
    /\ WF_vars(StoreTranscript)
    /\ WF_vars(\E a \in StreamConns : OnUtteranceEnd(a))
    /\ WF_vars(\E a \in StreamConns : KeepAliveCancelled(a))
    /\ WF_vars(\E a \in StreamConns : AudioClosed(a))

(***************************************************************************)
(* Properties.                                                             *)
(***************************************************************************)
\* recording_duration as a number: int(d) of the stored string, 0 for ''.
Duration(vis) == IF vis.recording_duration = <<>> THEN 0 ELSE PyInt(vis.recording_duration)

\* The step handles a recording command of the given type for visit v.
IsCommand(type, v) ==
    /\ ncmds' = ncmds + 1
    /\ msg'.type = type
    /\ msg'.visit_id = v

\* The step ends connection c's endpoint.
Terminates(c) == pc[c] = "loop" /\ pc'[c] = "done"

InList(list, x) == \E i \in 1..Len(list) : list[i] = x

Registered(c) == \E u \in DOMAIN active_connections : c \in active_connections[u]

RegisteredUnder(u) == IF u \in DOMAIN active_connections THEN active_connections[u] ELSE {}

AttemptedConns(e) == {a.conn : a \in e.attempts}

\* C1: for a logged history that is start_recording, then any pause_recording
\* and resume_recording commands, then finish_recording, the visit's final
\* recording_duration is the sum of the intervals its status was RECORDING, each
\* counted as no less than 0.
LogTypes == [i \in 1..Len(log) |-> log[i].type]

StartPausesFinish ==
    /\ Len(log) >= 2
    /\ log[1].type = "start_recording"
    /\ log[Len(log)].type = "finish_recording"
    /\ \A i \in 2..(Len(log) - 1) : log[i].type \in {"pause_recording", "resume_recording"}

C1_FinalDurationIsRecordedTime ==
    \A v \in Visits :
        StartPausesFinish => visits[v].recording_duration = PyStr(recorded[v])

\* C2: after start at t0 and pause at t1 the duration is the whole seconds of
\* t1-t0; after resume at t2 and finish at t3 it is those of (t1-t0) plus those
\* of (t3-t2): exactly t1-t0 and (t1-t0)+(t3-t2) when the commands fall on whole
\* seconds, and "10" then "40" for 0 s, 10 s, 20 s, 50 s.
Secs(i, j) == (log[j].at - log[i].at) \div TicksPerSecond
WholeSeconds(n) == \A i \in 1..n : log[i].at % TicksPerSecond = 0
Sec(s) == s * TicksPerSecond

C2_PauseResumeFinishScenario ==
    \A v \in Visits :
        /\ (LogTypes = <<"start_recording", "pause_recording">>)
            => /\ visits[v].recording_duration = PyStr(Secs(1, 2))
               /\ WholeSeconds(2)
                    => Duration(visits[v]) * TicksPerSecond = log[2].at - log[1].at
               /\ (log[1].at = Sec(0) /\ log[2].at = Sec(10))
                    => visits[v].recording_duration = <<"1", "0">>
        /\ (LogTypes = <<"start_recording", "pause_recording",
                         "resume_recording", "finish_recording">>)
            => /\ visits[v].recording_duration = PyStr(Secs(1, 2) + Secs(3, 4))
               /\ WholeSeconds(4)
                    => Duration(visits[v]) * TicksPerSecond
                          = (log[2].at - log[1].at) + (log[4].at - log[3].at)
               /\ (log[1].at = Sec(0) /\ log[2].at = Sec(10)
                      /\ log[3].at = Sec(20) /\ log[4].at = Sec(50))
                    => visits[v].recording_duration = <<"4", "0">>

C2_Witness ==
    /\ LogTypes = <<"start_recording", "pause_recording",
                    "resume_recording", "finish_recording">>
    /\ log[1].at = Sec(0) /\ log[2].at = Sec(10)
    /\ log[3].at = Sec(20) /\ log[4].at = Sec(50)
    /\ visits["v1"].recording_duration = <<"4", "0">>
    /\ visits["v1"].status = "FINISHED"

\* C3: recording_duration is never negative and no step decreases it.
C3_DurationNonNegativeMonotone ==
    [][\A v \in Visits : /\ Duration(visits'[v]) >= Duration(visits[v])
                         /\ Duration(visits'[v]) >= 0]_vars

\* C4: start_recording on a visit that is RECORDING changes nothing of the visit
\* and broadcasts no start_recording event.
C4_StartWhileRecordingRejected ==
    [][\A v \in Visits :
        (IsCommand("start_recording", v) /\ visits[v].status = "RECORDING")
            => /\ visits'[v] = visits[v]
               /\ \A i \in 1..Len(events') : events'[i].type # "start_recording"]_vars

\* C5: pause_recording on a visit that is not RECORDING, and resume_recording on
\* one that is not PAUSED, leaves the visit as it was and surfaces an error.
C5_InvalidTransitionRejected ==
    [][\A v \in Visits :
        (\/ IsCommand("pause_recording", v) /\ visits[v].status # "RECORDING"
         \/ IsCommand("resume_recording", v) /\ visits[v].status # "PAUSED")
            => /\ visits'[v] = visits[v]
               /\ \E i \in 1..Len(events') : events'[i].type = "error"]_vars

\* C6: finish_recording on a PAUSED visit keeps the recording_duration the pause wrote.
C6_FinishPausedKeepsDuration ==
    [][\A v \in Visits :
        (IsCommand("finish_recording", v) /\ visits[v].status = "PAUSED")
            => visits'[v].recording_duration = visits[v].recording_duration]_vars

\* C7: a visit that is FINISHED or GENERATING_NOTE never becomes RECORDING or
\* PAUSED again.
C7_FinishedIsTerminal ==
    [][\A v \in Visits :
        visits[v].status \in {"FINISHED", "GENERATING_NOTE"}
            => visits'[v].status \notin {"RECORDING", "PAUSED"}]_vars

\* C8: when a control connection's endpoint ends while a visit it was recording
\* (one in its active_recordings) is RECORDING, the visit is PAUSED afterwards,
\* its duration has grown by the seconds since recording_started_at, and a
\* pause_recording event for it has been broadcast.
C8_ImplicitPauseOnTermination ==
    [][\A c \in Conns, v \in Visits :
        (Terminates(c) /\ InList(active_recordings[c], v)
            /\ visits[v].status = "RECORDING")
            => /\ visits'[v].status = "PAUSED"
               /\ Duration(visits'[v])
                    = Duration(visits[v]) + TimeDiff(now, visits[v].recording_started_at[1])
               /\ \E i \in 1..Len(events') :
                    events'[i].type = "pause_recording" /\ events'[i].visit_id = v]_vars

\* C9: a broadcast attempts delivery to exactly the connections registered under
\* its user, once each, with was_requested true exactly on the requesting
\* connection's delivery; every open one of them receives it, and no connection
\* registered under another user is sent anything.
C9_BroadcastDelivery ==
    [][\A i \in 1..Len(events') :
        LET e == events'[i]
        IN  /\ AttemptedConns(e) =
                 IF i = 1 THEN RegisteredUnder(e.user)
                 ELSE {a.conn : a \in {x \in events'[i - 1].attempts : x.ok}}
            /\ \A a, b \in e.attempts : a.conn = b.conn => a = b
            /\ \A a \in e.attempts : a.was_requested = (a.conn = e.req)
            /\ \A a \in e.attempts :
                 (sock[a.conn] = "open" /\ ~Terminates(a.conn)) => a.ok
            /\ \A a \in e.attempts : \A u \in DOMAIN active_connections \ {e.user} :
                 a.conn \notin active_connections[u]]_vars

C9_Witness ==
    /\ "u2" \in DOMAIN active_connections
    /\ \E i \in 1..Len(events) :
         /\ events[i].type = "pause_recording"
         /\ \E a, b \in events[i].attempts :
              a.was_requested /\ a.ok /\ ~b.was_requested /\ b.ok

\* C10: a connection to which a delivery failed is out of the registry when the
\* broadcast has returned, and no later broadcast attempts delivery to a
\* connection that has been removed.
C10_FailedDeliveryRemoves ==
    [][/\ \A i \in 1..Len(events') : \A a \in events'[i].attempts :
            ~a.ok => /\ ~Registered(a.conn)'
                     /\ \A j \in (i + 1)..Len(events') :
                          a.conn \notin AttemptedConns(events'[j])
       /\ \A c \in Conns :
            (pc[c] # "init" /\ ~Registered(c))
                => \A i \in 1..Len(events') : c \notin AttemptedConns(events'[i])]_vars

C10_Witness ==
    \E c \in Conns :
        /\ pc[c] = "loop" /\ sock[c] = "closed" /\ ~Registered(c)
        /\ \E i \in 1..Len(events) :
             /\ events[i].user = UserOf(c)
             /\ events[i].attempts # {}
             /\ c \notin AttemptedConns(events[i])

\* C11: a delivery that fails inside a broadcast is isolated. Every connection of
\* the user that is registered and open is still delivered to and is still
\* registered afterwards, and the value the broadcast returns is the number of
\* those connections: 0 when the user has no registered connection.
LiveConns(u) == {c \in RegisteredUnder(u) : sock[c] = "open" /\ ~Terminates(c)}

C11_FailureIsolated ==
    [][\A i \in 1..Len(events') :
        LET e == events'[i]
        IN  /\ \A c \in LiveConns(e.user) :
                 /\ \E a \in e.attempts : a.conn = c /\ a.ok
                 /\ Registered(c)'
            /\ e.count = Cardinality(LiveConns(e.user))
            /\ e.user \notin DOMAIN active_connections => e.count = 0]_vars

C11_Witness ==
    /\ \E i \in 1..Len(events) :
         /\ events[i].count = 1
         /\ \E a, b \in events[i].attempts :
              /\ ~a.ok /\ ~Registered(a.conn)
              /\ b.ok /\ Registered(b.conn) /\ b.conn # events[i].req

RECURSIVE Pow2(_)
Pow2(n) == IF n = 0 THEN 1 ELSE 2 * Pow2(n - 1)

\* The step ends the sleep of a reconnection attempt of session a and reconnects.
Reconnects(a) == obs'.op = "reconnect" /\ obs'.conn = a

\* C12: the reconnection attempt counter of a Transcriber never exceeds 5, the n-th
\* attempt since the last successful connect has waited min(2^(n-1), 30) seconds
\* when it reconnects, and the counter and the delay go back (to 0 and 1) only
\* in a step in which a connect succeeds.
C12_BoundedBackoff ==
    [][\A a \in Audio :
        /\ tr'[a].reconnect_attempts <= 5
        /\ Reconnects(a) =>
              tr[a].slept = Min(Pow2(tr[a].reconnect_attempts - 1), 30)
        /\ (tr'[a].reconnect_attempts < tr[a].reconnect_attempts
              \/ tr'[a].reconnect_delay < tr[a].reconnect_delay)
            => /\ obs'.op \in {"connect", "reconnect"}
               /\ tr'[a].is_connected
               /\ tr'[a].reconnect_attempts = 0
               /\ tr'[a].reconnect_delay = 1]_vars

\* C13: when the 5th reconnection attempt in a row has failed, an error event is
\* broadcast to the user's clients and the visit is left as it was; and from a
\* session whose 5 attempts are used up no further attempt starts.
C13_AbandonedAfterFifthFailure ==
    [][\A a \in Audio :
        /\ (Reconnects(a) /\ tr[a].reconnect_attempts = 5 /\ ~tr'[a].is_connected)
            => /\ \E i \in 1..Len(events') : events'[i].type = "error"
               /\ visits' = visits
        /\ (tr[a].reconnect_attempts = 5 /\ tr[a].owner = "none" /\ ~Reconnects(a))
            => tr'[a].owner = "none"]_vars

C18_ReadyOnlyWhenConnected ==
    [][\A a \in Audio :
        (obs'.ready /\ obs'.conn = a) => tr'[a].is_connected]_vars

IsPrefix(s, t) == Len(s) <= Len(t) /\ SubSeq(t, 1, Len(s)) = s

InterimsThenFinal(h) ==
    /\ Len(h) >= 1
    /\ h[Len(h)].is_final /\ h[Len(h)].speech_final
    /\ \A i \in 1..(Len(h) - 1) : ~h[i].is_final

LiveStream(a) == tr[a].connection /\ tr[a].is_connected

\* C17: no two audio connections of one visit have a live stream at the same
\* time, and after pause_recording or finish_recording for a visit no stream of
\* that visit is live.
C17_OneStreamPerVisit ==
    [][/\ \A a, b \in Audio :
            (a # b /\ VisitOf(a) = VisitOf(b)) => ~(LiveStream(a)' /\ LiveStream(b)')
       /\ \A v \in Visits :
            (IsCommand("pause_recording", v) \/ IsCommand("finish_recording", v))
                => \A a \in Audio : VisitOf(a) = v => ~LiveStream(a)']_vars

\* C19: the step that handles finish_recording broadcasts one finish_recording
\* event, to every connection of the user, with the visit's full transcript and
\* its final duration; it creates exactly one note task, which has not begun
\* (the visit is FINISHED, not GENERATING_NOTE), and the endpoint goes on with
\* its loop.
C19_FinishThenNoteOnce ==
    [][\A c \in Conns, v \in Visits :
        (IsCommand("finish_recording", v) /\ msg'.conn = c)
            => /\ Len(events') = 1
               /\ events'[1].type = "finish_recording" /\ events'[1].visit_id = v
               /\ AttemptedConns(events'[1]) = RegisteredUnder(UserOf(c))
               /\ \A a \in events'[1].attempts : sock[a.conn] = "open" => a.ok
               /\ events'[1].data.transcript = visits[v].transcript
               /\ events'[1].data.transcript = visits'[v].transcript
               /\ events'[1].data.recording_duration = visits'[v].recording_duration
               /\ events'[1].data.recording_duration = PyStr(NewDuration(visits[v], now))
               /\ note_tasks' = BagAdd(note_tasks, [conn |-> c, user |-> UserOf(c),
                                                    visit_id |-> v, stage |-> "created"])
               /\ visits'[v].status = "FINISHED"
               /\ pc'[c] = "loop"]_vars

C19_Witness ==
    /\ msg.type = "finish_recording"
    /\ Len(events) = 1
    /\ Cardinality({a \in events[1].attempts : a.ok}) = 2
    /\ Len(events[1].data.transcript) = 1
    /\ events[1].data.recording_duration = <<"1">>
    /\ \E t \in DOMAIN note_tasks : t.stage = "created" /\ note_tasks[t] = 1

\* C20: every connection listed in the registry is open, and a control
\* connection whose endpoint has returned (client disconnect, invalid-session
\* close, handler error close) is no longer listed.
C20_RegisteredAreOpen ==
    \A c \in Conns :
        /\ Registered(c) => sock[c] = "open"
        /\ pc[c] = "done" => ~Registered(c)

\* The transport of a connection has been closed, by the client or by the server.
TransportClosed(c) == sock[c] \in {"closed", "disconnected"}

\* The step is one of the health check.
HealthCheckStep == msg'.type = "health_check"

\* C21: a registered connection whose transport is closed is eventually removed
\* from the registry, with no broadcast needed, and a step of the health check
\* never removes a connection whose transport is open.
C21_HealthCheckRemovesClosed ==
    /\ \A c \in Conns : (Registered(c) /\ TransportClosed(c)) ~> ~Registered(c)
    /\ [][HealthCheckStep =>
            \A c \in Conns : (Registered(c) /\ ~Registered(c)') => sock[c] # "open"]_vars

InSeq(list, x) == \E i \in 1..Len(list) : list[i] = x

\* C22: a visit that create_visit returns has status NOT_STARTED and an empty
\* transcript, note and additional_context, and at all times a visit's id is in
\* the visit_ids of a user exactly when the visit exists and that user owns it.
C22_VisitListedWhileItExists ==
    /\ [][msg'.type = "create_visit" /\ msg'.visit_id # "none"
            => /\ msg'.visit_id \notin DOMAIN db.visits
               /\ msg'.visit_id \in DOMAIN db'.visits
               /\ LET vis == db'.visits[msg'.visit_id]
                  IN  /\ vis.status = "NOT_STARTED"
                      /\ vis.transcript = <<>> /\ vis.note = <<>>
                      /\ vis.additional_context = <<>>
                      /\ vis.user_id = msg'.conn]_vars
    /\ [](\A i \in 1..MaxVisits, u \in Users :
            InSeq(db.visit_ids[u], VisitIds[i])
                <=> (VisitIds[i] \in DOMAIN db.visits /\ db.visits[VisitIds[i]].user_id = u))

\* The step is a reconnection trigger on a: a scheduled _attempt_reconnect task
\* starts, send_audio is called, or a keep-alive send fails.
Trigger(a) ==
    /\ obs'.conn = a
    /\ \/ obs'.op \in {"reconnect_task", "send_audio"}
       \/ obs'.op = "keep_alive" /\ obs'.send_failed

\* C23: the reconnecting flag is set exactly while one caller is inside an
\* attempt; a trigger that arrives while it is set leaves that attempt and the
\* attempt counter as they are, and the failed connect that ends an attempt
\* starts no new one and does not increment the counter.
C23_OneAttemptAtATime ==
    [][\A a \in Audio :
        /\ tr[a].reconnecting <=> tr[a].owner # "none"
        /\ (tr[a].reconnecting /\ Trigger(a))
              => /\ tr'[a].reconnecting
                 /\ tr'[a].reconnect_attempts = tr[a].reconnect_attempts
                 /\ tr'[a].owner = tr[a].owner
                 /\ tr'[a].sleep_left = tr[a].sleep_left
                 /\ tr'[a].slept = tr[a].slept
        /\ (tr[a].reconnecting /\ Reconnects(a))
              => /\ ~tr'[a].reconnecting
                 /\ tr'[a].reconnect_attempts \in {0, tr[a].reconnect_attempts}]_vars

C23_Witness ==
    \E a \in Audio :
        /\ obs.conn = a /\ obs.op = "reconnect_task"
        /\ tr[a].reconnecting
        /\ tr[a].owner \in {"keepalive", "endpoint"}
        /\ tr[a].sleep_left > 0

\* C24: once disconnect has returned (the endpoint never calls connect again),
\* the session is not connected, has no remote stream and no keep-alive task,
\* and no keep-alive frame is sent.
C24_DisconnectIsFinal ==
    \A a \in Audio :
        apc[a] = "closed"
            => /\ ~tr[a].is_connected
               /\ ~tr[a].connection
               /\ tr[a].keep_alive_task = "none"
               /\ ~(obs.conn = a /\ obs.op = "keep_alive")

RECURSIVE InArrivalOrder(_)
\* The words of the fragments of a buffer, first fragment first.
InArrivalOrder(list) ==
    IF Len(list) = 0 THEN <<>>
    ELSE InArrivalOrder(SubSeq(list, 1, Len(list) - 1)) \o list[Len(list)]

\* C25: an utterance-end signal on a session whose buffer is not empty schedules
\* the store of one utterance, the buffered fragments in arrival order, for the
\* session's visit, and empties the buffer; on an empty buffer it schedules
\* nothing and changes nothing.
C25_UtteranceEndFlushes ==
    [][\A a \in Audio :
        (msg'.type = "utterance_end" /\ msg'.conn = a)
            => IF tr[a].is_finals # <<>>
               THEN /\ Len(store_q') = Len(store_q) + 1
                    /\ SubSeq(store_q', 1, Len(store_q)) = store_q
                    /\ store_q'[Len(store_q')].text = InArrivalOrder(tr[a].is_finals)
                    /\ store_q'[Len(store_q')].visit_id = VisitOf(a)
                    /\ store_q'[Len(store_q')].conn = a
                    /\ tr'[a].is_finals = <<>>
               ELSE /\ store_q' = store_q
                    /\ tr' = tr
                    /\ visits' = visits]_vars

C25_Witness ==
    \E a \in Audio :
        /\ msg.type = "utterance_end" /\ msg.conn = a
        /\ tr[a].is_finals = <<>>
        /\ Len(tr[a].heard) = 2
        /\ \A i \in 1..2 : tr[a].heard[i].is_final /\ ~tr[a].heard[i].speech_final
        /\ tr[a].heard[1].text # tr[a].heard[2].text
        /\ store_q # <<>>
        /\ store_q[Len(store_q)].text = tr[a].heard[1].text \o tr[a].heard[2].text

\* The step runs a _store_transcript coroutine: its store fails, or a
\* transcript grows.
StoreStep ==
    \/ obs'.op = "store_failed"
    \/ \E v \in Visits : Len(visits'[v].transcript) > Len(visits[v].transcript)

\* The utterance uid of session a is a line of some transcript.
Stored(a, uid) ==
    \E v \in Visits : \E i \in 1..Len(visits[v].transcript) :
        visits[v].transcript[i].conn = a /\ visits[v].transcript[i].uid = uid

\* C26: a store that fails drops its utterance, leaves the transcript, the
\* session and its connected state as they are and raises nothing; a dropped
\* utterance is never scheduled again and never appears in a transcript; and a
\* store that reaches the visit appends its line whatever failed before.
C26_FailedStoreDropsUtterance ==
    /\ [][StoreStep =>
            LET s == Head(store_q)
            IN  /\ store_q' = Tail(store_q)
                /\ tr' = tr /\ apc' = apc
                /\ ~obs'.raised
                /\ IF obs'.op = "store_failed"
                   THEN /\ visits' = visits
                        /\ dropped' = dropped \cup {[conn |-> s.conn, uid |-> s.uid]}
                   ELSE /\ visits'[s.visit_id].transcript
                              = Append(visits[s.visit_id].transcript, LineOf(s))
                        /\ dropped' = dropped]_vars
    /\ [](\A d \in dropped :
            /\ ~Stored(d.conn, d.uid)
            /\ \A i \in 1..Len(store_q) :
                    ~(store_q[i].conn = d.conn /\ store_q[i].uid = d.uid))

C26_Witness ==
    \E d \in dropped :
        /\ Stored(d.conn, d.uid + 1)
        /\ tr[d.conn].is_connected
        /\ obs.op # "store_failed"

AllRegistered == {c \in Conns : Registered(c)}

\* C27: while connections connect, leave and are removed by the health check
\* between the awaits of a broadcast, every delivery the broadcast attempts is
\* to a connection registered at that moment, no statement of the broadcast
\* raises on a missing entry, and when no broadcast is in progress the registry
\* holds exactly the connections that connected and were neither removed nor
\* failed.
C27_BroadcastSeesConsistentRegistry ==
    /\ [][\A a \in bc'.attempts \ bc.attempts : a.registered]_vars
    /\ [](bc.errors = 0)
    /\ [](bc.phase = "none"
            => AllRegistered = reg.connected \ (reg.removed \cup reg.failed))

C27_Witness ==
    /\ bc.phase = "sending"
    /\ msg.type = "health_check"
    /\ msg.conn \in bc.copy
    /\ ~Registered(msg.conn)
    /\ bc.cur # msg.conn
    /\ msg.conn \notin AttemptedConns(bc)

DisconnectStep(c) ==
    /\ pc[c] = "loop"
    /\ pc'[c] = "done"
    /\ msg'.type = "disconnect"
    /\ msg'.conn = c

\* C28: when a control connection disconnects, its handler changes the status
\* and the recording_duration only of visits whose stored status is RECORDING
\* at that moment; a visit that has since been paused or finished keeps both.
C28_DisconnectPausesOnlyRecording ==
    [][\A c \in Tabs : DisconnectStep(c) =>
          \A v \in Visits :
              visits[v].status # "RECORDING" =>
                  /\ visits'[v].status = visits[v].status
                  /\ visits'[v].recording_duration = visits[v].recording_duration]_vars

\* C29: a final fragment waiting in a session's buffer, which will be part of
\* the session's next utterance, is eventually a line of the visit's
\* transcript, also when the session is closed before a signal ends the
\* utterance.
C29_BufferedFinalsAreStored ==
    \A a \in StreamConns : \A k \in 1..MaxFragments :
        (tr[a].is_finals # <<>> /\ tr[a].nutt + 1 = k) ~> Stored(a, k)

\* C30: in every state of the registry, whatever connects, disconnects,
\* broadcasts and health checks have interleaved, last_activity and
\* active_connections have the same user keys and, for each user, the same
\* connection ids, and no user key maps to an empty set.
C30_RegistryMapsAgree ==
    /\ DOMAIN last_activity = DOMAIN active_connections
    /\ \A u \in DOMAIN active_connections :
          /\ last_activity[u] = active_connections[u]
          /\ active_connections[u] # {}

C30_Witness ==
    /\ bc.phase = "sending"
    /\ bc.begun_open
    /\ ~Registered(bc.cur)
    /\ bc.cur \in reg.removed
    /\ bc.user \in DOMAIN active_connections
    /\ reg.failed # {}
    /\ hc.task # "none"

====
